---------------------------- MODULE Spec2Model ----------------------------
(***************************************************************************)
(* Asynchronous multi-channel delivery pipeline: the producers, the broker *)
(* topic with its shared subscription, the Message / MessageEvent store    *)
(* and the WhatsApp, SMS and Email consumers.  Every store call, broker    *)
(* call and vendor call of a handler is one step of the worker that runs   *)
(* it, so that other workers interleave where the code can be suspended.   *)
(***************************************************************************)
EXTENDS Naturals, Integers, Sequences, FiniteSets, Bags, TLC

(***************************************************************************)
(* Bounds of the model.                                                    *)
(***************************************************************************)
MaxUUID == 1
MaxEnv == 2
MaxRecipients == 2
MaxDeliveries == 2
MaxFaults == 1
MaxBatch == 2

UUIDs == 1..(MaxUUID + MaxBatch)
EnvIds == 1..MaxEnv
Rcpts == 1..MaxRecipients

(***************************************************************************)
(* models.Channel, models.Status and models.MessageEventType.              *)
(***************************************************************************)
ChannelWhatsApp == "WHATSAPP"
ChannelSMS == "SMS"
ChannelEmail == "EMAIL"
Channels == {ChannelWhatsApp, ChannelSMS, ChannelEmail}

StatusAccepted == "ACCEPTED"
StatusRejected == "REJECTED"
StatusSent == "SENT"
StatusDelivered == "DELIVERED"
StatusOpened == "READ"

(***************************************************************************)
(* The templates and providers tables.  The pipeline only reads them.      *)
(* status 1 is active; ids is the set of keys of Template.TemplateIds and  *)
(* id the value stored under them; name is Template.Name;                  *)
(* parses tells whether text/template accepts Template.Content; adapter    *)
(* tells whether the vendor constructor accepts the provider's Config and  *)
(* SecureConfig.                                                           *)
(***************************************************************************)
Templates ==
  { [uuid |-> "tWA",   tenant |-> "acme", channel |-> ChannelWhatsApp, status |-> 1, ids |-> {"twilio"}, id |-> "HX-tWA", name |-> "n-tWA", parses |-> TRUE],
    [uuid |-> "tWAx",  tenant |-> "acme", channel |-> ChannelWhatsApp, status |-> 1, ids |-> {"twilio"}, id |-> "HX-tWAx", name |-> "n-tWAx", parses |-> FALSE],
    [uuid |-> "tWAn",  tenant |-> "acme", channel |-> ChannelWhatsApp, status |-> 1, ids |-> {},         id |-> "", name |-> "n-tWAn", parses |-> TRUE],
    [uuid |-> "tWAo",  tenant |-> "acme", channel |-> ChannelWhatsApp, status |-> 0, ids |-> {"twilio"}, id |-> "HX-tWAo", name |-> "n-tWAo", parses |-> TRUE],
    [uuid |-> "tSMS",  tenant |-> "acme", channel |-> ChannelSMS,      status |-> 1, ids |-> {"twilio"}, id |-> "HX-tSMS", name |-> "n-tSMS", parses |-> TRUE],
    [uuid |-> "tSMSx", tenant |-> "acme", channel |-> ChannelSMS,      status |-> 1, ids |-> {"twilio"}, id |-> "HX-tSMSx", name |-> "n-tSMSx", parses |-> FALSE],
    [uuid |-> "tSMSn", tenant |-> "acme", channel |-> ChannelSMS,      status |-> 1, ids |-> {},         id |-> "", name |-> "n-tSMSn", parses |-> TRUE],
    [uuid |-> "tEM",   tenant |-> "acme", channel |-> ChannelEmail,    status |-> 1, ids |-> {},         id |-> "", name |-> "n-tEM", parses |-> TRUE],
    [uuid |-> "tEMo",  tenant |-> "acme", channel |-> ChannelEmail,    status |-> 0, ids |-> {},         id |-> "", name |-> "n-tEMo", parses |-> TRUE] }

Providers ==
  { [uuid |-> "pWA",   channel |-> ChannelWhatsApp, status |-> 1, provider |-> "TWILIO",   adapter |-> TRUE],
    [uuid |-> "pWAc",  channel |-> ChannelWhatsApp, status |-> 1, provider |-> "TWILIO",   adapter |-> FALSE],
    [uuid |-> "pWAo",  channel |-> ChannelWhatsApp, status |-> 0, provider |-> "TWILIO",   adapter |-> TRUE],
    [uuid |-> "pSMS",  channel |-> ChannelSMS,      status |-> 1, provider |-> "TWILIO",   adapter |-> TRUE],
    [uuid |-> "pSMSc", channel |-> ChannelSMS,      status |-> 1, provider |-> "TWILIO",   adapter |-> FALSE],
    [uuid |-> "pEM",   channel |-> ChannelEmail,    status |-> 1, provider |-> "SENDGRID", adapter |-> TRUE],
    [uuid |-> "pEMc",  channel |-> ChannelEmail,    status |-> 1, provider |-> "SENDGRID", adapter |-> FALSE],
    [uuid |-> "pEMo",  channel |-> ChannelEmail,    status |-> 0, provider |-> "SENDGRID", adapter |-> TRUE] }

(***************************************************************************)
(* The channel messages a caller may hand in: n recipients, a template     *)
(* reference, a provider reference and the tenant identifier.              *)
(***************************************************************************)
Request(ch, n, t, p) == [ch |-> ch, n |-> n, template |-> t, provider |-> p, tenant |-> "acme"]

RequestsOf(ch) ==
  CASE ch = ChannelWhatsApp ->
         { Request(ch, n, "tWA", "pWA") : n \in 0..MaxRecipients }
           \cup { Request(ch, 1, "tNone", "pWA"), Request(ch, 1, "tWA", "pWAo"),
                  Request(ch, 1, "tWAn", "pWA"),  Request(ch, 1, "tWA", "pWAc"),
                  Request(ch, MaxRecipients, "tWAx", "pWA") }
    [] ch = ChannelSMS ->
         { Request(ch, n, "tSMS", "pSMS") : n \in 0..MaxRecipients }
           \cup { Request(ch, 1, "tNone", "pSMS"), Request(ch, 1, "tSMS", "pNone"),
                  Request(ch, 1, "tSMS", "pSMSc"), Request(ch, MaxRecipients, "tSMSx", "pSMS"),
                  Request(ch, 1, "tSMSn", "pSMS") }
    [] ch = ChannelEmail ->
         { Request(ch, n, "tEM", "pEM") : n \in 0..MaxRecipients }
           \cup { Request(ch, 1, "tNone", "pEM"), Request(ch, 1, "tEM", "pNone"),
                  Request(ch, 1, "tEM", "pEMc"),  Request(ch, 1, "tEMo", "pEM"),
                  Request(ch, 1, "tEM", "pEMo") }

NoRequest == Request("", 0, "", "")

VARIABLES
  nextUUID,   \* helper.GenerateUUID: the UUIDs handed out so far
  req,        \* the channel message that goes with each UUID
  prod,       \* position of the Produce / Push call made for each UUID
  messages,   \* the messages table: rows in insertion order, ID = index
  events,     \* the message_events table, a bag of rows
  topic,      \* the envelopes on the broker topics
  wk,         \* the consumer workers: position and locals of the handler
  attempts,   \* vendor side: send calls received, per UUID and recipient
  delivered,  \* vendor side: send calls accepted, per UUID and recipient
  faults,     \* store, broker and worker failures so far
  api,        \* the ProcessMessageBatch call: its input, position and responses
  call,       \* a helper function applied to an input: name, argument, result
  mig,        \* the migrations: the directory, app_update and the start-up under way
  life        \* the SMSConsumer object: its fields and its consume goroutines

vars == <<nextUUID, req, prod, messages, events, topic, wk, attempts, delivered, faults, api, call, mig, life>>


(***************************************************************************)
(* The store.  messages.uuid carries a unique index, so an insert of a     *)
(* UUID that already has a row fails.  Save writes the caller's copy of    *)
(* the row back by primary key.                                            *)
(***************************************************************************)
RowsWithUUID(u) == { i \in DOMAIN messages : messages[i].uuid = u }

\* the messages table with no unique index on uuid
UniqueIndexMissing(u) == TRUE

UniqueIndexAllows(u) == RowsWithUUID(u) = {}

\* a row lookup that does not filter by uuid
First_anyRow(u) == 1

First(u) == CHOOSE i \in RowsWithUUID(u) : \A j \in RowsWithUUID(u) : i <= j

\* a row inserted with the status the handler is about to give it
NewMessage_sent(u, ch) == [uuid |-> u, channel |-> ch, status |-> StatusSent]

NewMessage(u, ch) == [uuid |-> u, channel |-> ch, status |-> StatusAccepted]

Save(id, status) == [messages EXCEPT ![id].status = status]

MessageEvent(u, status, reason) == [msg |-> u, status |-> status, reason |-> reason]

\* an event write that replaces the message's earlier event of the same status
InsertMessageEvent_upsert(u, status, reason) ==
  LET kept == { ev \in BagToSet(events) : ~(ev.msg = u /\ ev.status = status) }
  IN  [ev \in kept |-> CopiesIn(ev, events)] (+) SetToBag({MessageEvent(u, status, reason)})

\* an event write that is lost
InsertMessageEvent_lost(u, status, reason) == events

InsertMessageEvent(u, status, reason) == events (+) SetToBag({MessageEvent(u, status, reason)})

CanFail == faults < MaxFaults

Fault == faults' = faults + 1

(***************************************************************************)
(* The broker topics.  An envelope is pending (the broker may dispatch     *)
(* it), inflight (dispatched to a worker, not acknowledged) or acked.      *)
(***************************************************************************)
NoEnvelope == [uuid |-> 0, ch |-> "", origin |-> "", st |-> "none", bad |-> FALSE, deliv |-> 0, nacks |-> 0]

Envelope(u, ch, origin, bad) ==
  [uuid |-> u, ch |-> ch, origin |-> origin, st |-> "pending", bad |-> bad, deliv |-> 0, nacks |-> 0]

FreeEnv == { e \in EnvIds : topic[e].st = "none" }

NextEnv == CHOOSE e \in FreeEnv : \A f \in FreeEnv : e <= f

OnTopic(u) == { e \in EnvIds : topic[e].st # "none" /\ topic[e].uuid = u }

(***************************************************************************)
(* Workers: WhatsApp runs a consumer group, SMS one consume loop, Email    *)
(* a group of one.                                                         *)
(***************************************************************************)
WhatsAppWorkers == {"wa1", "wa2"}
SMSWorkers == {"sms1"}
EmailWorkers == {"em1"}
Workers == WhatsAppWorkers \cup SMSWorkers \cup EmailWorkers

\* writeFailed: a status or event write of the processing under way failed and
\* the handler, having logged it, went on
Idle ==
  [pc |-> "idle", env |-> 0, id |-> 0, status |-> "", idx |-> 0, atLeastOneSuccess |-> FALSE,
   reason |-> "", templateID |-> "", writeFailed |-> FALSE]

NoCalls == [i \in Rcpts |-> 0]

\* no ProcessMessageBatch call is running; no helper function is being applied
NoBatch == [pc |-> "idle", ch |-> "", msgs |-> <<>>, idx |-> 0, uuid |-> 0, responses |-> <<>>]

\* NewSMSConsumer: running false, consumer nil, no consume goroutine.  A
\* subscription is a positive number, nil is 0; closed holds the subscriptions
\* that Close was called on; calls counts the Start and Stop calls made and
\* last names the latest of them.
MaxCalls == 4
MaxLoops == 2
Loops == 1..MaxLoops

NoLoop == [pc |-> "none", seen |-> FALSE, msg |-> 0]

NoLifecycle ==
  [running |-> FALSE, consumer |-> 0, closed |-> {}, calls |-> 0, last |-> "",
   loops |-> [l \in Loops |-> NoLoop]]

\* no migration file, an empty app_update table, the service down
NoMigrations ==
  [dir |-> {}, applied |-> {}, ran |-> <<>>, pc |-> "down", queue |-> <<>>,
   appliedMap |-> {}, run |-> <<>>, failed |-> <<>>]

NoCall == [fn |-> "", arg |-> <<>>, out |-> <<>>]

Init ==
  /\ nextUUID = 0
  /\ req = [u \in UUIDs |-> NoRequest]
  /\ prod = [u \in UUIDs |-> "none"]
  /\ messages = <<>>
  /\ events = EmptyBag
  /\ topic = [e \in EnvIds |-> NoEnvelope]
  /\ wk = [w \in Workers |-> Idle]
  /\ attempts = [u \in UUIDs |-> NoCalls]
  /\ delivered = [u \in UUIDs |-> NoCalls]
  /\ faults = 0
  /\ api = NoBatch
  /\ mig = NoMigrations
  /\ life = NoLifecycle
  /\ call = NoCall

(***************************************************************************)
(* Producers.  ProcessMessageBatch generates the UUID and calls            *)
(* Produce<Channel>Message; DirectPush<Channel>Message.Push validates      *)
(* first.  Both then insert the row and publish the envelope.              *)
(***************************************************************************)
ProduceStart(ch, r) ==
  /\ nextUUID < MaxUUID
  /\ r.n >= 1
  /\ nextUUID' = nextUUID + 1
  /\ req' = [req EXCEPT ![nextUUID + 1] = r]
  /\ prod' = [prod EXCEPT ![nextUUID + 1] = "create"]
  /\ UNCHANGED <<api, call, mig, life, messages, events, topic, wk, attempts, delivered, faults>>

Validate(r) == r.n >= 1

DirectPushStart(ch, r) ==
  /\ nextUUID < MaxUUID
  /\ nextUUID' = nextUUID + 1
  /\ req' = [req EXCEPT ![nextUUID + 1] = r]
  /\ prod' = [prod EXCEPT ![nextUUID + 1] = IF Validate(r) THEN "create" ELSE "invalid"]
  /\ UNCHANGED <<api, call, mig, life, messages, events, topic, wk, attempts, delivered, faults>>

\* Produce with the insert's error logged and not returned
ProduceCreate_errorSwallowed(u) ==
  /\ prod[u] = "create"
  /\ \/ /\ UniqueIndexAllows(u)
        /\ messages' = Append(messages, NewMessage(u, req[u].ch))
        /\ UNCHANGED faults
     \/ /\ CanFail
        /\ Fault
        /\ UNCHANGED messages
  /\ prod' = [prod EXCEPT ![u] = "publish"]
  /\ UNCHANGED <<api, call, mig, life, nextUUID, req, events, topic, wk, attempts, delivered>>

\* Produce with the publish made ahead of the insert
ProduceCreate_publishFirst(u) ==
  /\ prod[u] = "create"
  /\ FreeEnv # {}
  /\ topic' = [topic EXCEPT ![NextEnv] = Envelope(u, req[u].ch, "producer", FALSE)]
  /\ \/ /\ UniqueIndexAllows(u)
        /\ messages' = Append(messages, NewMessage(u, req[u].ch))
        /\ prod' = [prod EXCEPT ![u] = "ok"]
        /\ UNCHANGED faults
     \/ /\ CanFail
        /\ Fault
        /\ prod' = [prod EXCEPT ![u] = "createErr"]
        /\ UNCHANGED messages
  /\ UNCHANGED <<api, call, mig, life, nextUUID, req, events, wk, attempts, delivered>>

ProduceCreate(u) ==
  /\ prod[u] = "create"
  /\ \/ /\ IF UniqueIndexAllows(u)
             THEN /\ messages' = Append(messages, NewMessage(u, req[u].ch))
                  /\ prod' = [prod EXCEPT ![u] = "publish"]
             ELSE /\ prod' = [prod EXCEPT ![u] = "createErr"]
                  /\ UNCHANGED messages
        /\ UNCHANGED faults
     \/ /\ CanFail
        /\ Fault
        /\ prod' = [prod EXCEPT ![u] = "createErr"]
        /\ UNCHANGED messages
  /\ UNCHANGED <<api, call, mig, life, nextUUID, req, events, topic, wk, attempts, delivered>>

\* ProduceMessage that reports a failure of a send the broker has taken
ProduceMessage_sentThenFailed(u) ==
  /\ prod[u] = "publish"
  /\ FreeEnv # {}
  /\ topic' = [topic EXCEPT ![NextEnv] = Envelope(u, req[u].ch, "producer", FALSE)]
  /\ \/ /\ prod' = [prod EXCEPT ![u] = "ok"]
        /\ UNCHANGED faults
     \/ /\ CanFail
        /\ Fault
        /\ prod' = [prod EXCEPT ![u] = "publishErr"]
  /\ UNCHANGED <<api, call, mig, life, nextUUID, req, messages, events, wk, attempts, delivered>>

ProduceMessage(u) ==
  /\ prod[u] = "publish"
  /\ \/ /\ FreeEnv # {}
        /\ topic' = [topic EXCEPT ![NextEnv] = Envelope(u, req[u].ch, "producer", FALSE)]
        /\ prod' = [prod EXCEPT ![u] = "ok"]
        /\ UNCHANGED faults
     \/ /\ CanFail
        /\ Fault
        /\ prod' = [prod EXCEPT ![u] = "publishErr"]
        /\ UNCHANGED topic
  /\ UNCHANGED <<api, call, mig, life, nextUUID, req, messages, events, wk, attempts, delivered>>

(***************************************************************************)
(* A payload put on a topic by something other than the producers: a new   *)
(* envelope (well-formed with a UUID of its own, or malformed), or a       *)
(* second copy of an envelope already published that way.                  *)
(***************************************************************************)
ExternalPublish(ch, r, bad) ==
  /\ FreeEnv # {}
  /\ IF bad
       THEN /\ topic' = [topic EXCEPT ![NextEnv] = Envelope(0, ch, "external", TRUE)]
            /\ UNCHANGED <<nextUUID, req>>
       ELSE /\ nextUUID < MaxUUID
            /\ nextUUID' = nextUUID + 1
            /\ req' = [req EXCEPT ![nextUUID + 1] = r]
            /\ topic' = [topic EXCEPT ![NextEnv] = Envelope(nextUUID + 1, ch, "external", FALSE)]
  /\ UNCHANGED <<api, call, mig, life, prod, messages, events, wk, attempts, delivered, faults>>

ExternalRepublish(e) ==
  /\ FreeEnv # {}
  /\ topic[e].st # "none"
  /\ topic[e].origin = "external"
  /\ ~topic[e].bad
  /\ topic' = [topic EXCEPT ![NextEnv] = Envelope(topic[e].uuid, topic[e].ch, "external", FALSE)]
  /\ UNCHANGED <<api, call, mig, life, nextUUID, req, prod, messages, events, wk, attempts, delivered, faults>>

(***************************************************************************)
(* Broker dispatch and settlement (PulsarClient.ConsumeMessages): Receive  *)
(* hands a pending envelope of the worker's topic to the worker; when the  *)
(* handler returns, the worker Nacks on an error and Acks otherwise.  A    *)
(* Nacked envelope is pending again.                                       *)
(***************************************************************************)
ChannelOf(w) ==
  IF w \in WhatsAppWorkers THEN ChannelWhatsApp
  ELSE IF w \in SMSWorkers THEN ChannelSMS ELSE ChannelEmail

Receive(w) ==
  /\ wk[w].pc = "idle"
  /\ \E e \in EnvIds :
       /\ topic[e].st = "pending"
       /\ topic[e].ch = ChannelOf(w)
       /\ topic[e].deliv < MaxDeliveries
       /\ topic' = [topic EXCEPT ![e].st = "inflight", ![e].deliv = @ + 1]
       /\ wk' = [wk EXCEPT ![w] = [Idle EXCEPT !.pc = "handle", !.env = e]]
  /\ UNCHANGED <<api, call, mig, life, nextUUID, req, prod, messages, events, attempts, delivered, faults>>

Ack(e) == [topic EXCEPT ![e].st = "acked"]

Nack(e) == [topic EXCEPT ![e].st = "pending", ![e].nacks = @ + 1]

\* a consume loop that acknowledges whatever the handler returned
Settle_acks(e, err) == Ack(e)

Settle(e, err) == IF err THEN Nack(e) ELSE Ack(e)

Return(w, err) ==
  /\ topic' = Settle(wk[w].env, err)
  /\ wk' = [wk EXCEPT ![w] = Idle]

Goto(w, pc) == wk' = [wk EXCEPT ![w].pc = pc]

(***************************************************************************)
(* A worker process dies while it handles an envelope: the broker sees     *)
(* the consumer go and dispatches the unacknowledged envelope again; the   *)
(* restarted worker is idle.                                               *)
(***************************************************************************)
Crash(w) ==
  /\ wk[w].pc # "idle"
  /\ CanFail
  /\ Fault
  /\ topic' = [topic EXCEPT ![wk[w].env].st = "pending"]
  /\ wk' = [wk EXCEPT ![w] = Idle]
  /\ UNCHANGED <<api, call, mig, life, nextUUID, req, prod, messages, events, attempts, delivered>>

(***************************************************************************)
(* Reason texts of the events (the variable parts left out).               *)
(***************************************************************************)
ReasonCreated == "Message created during processing due to missing record"
ReasonTemplate == "template not found or inactive"
ReasonProvider == "provider not found or inactive"
ReasonTemplateID == "template ID not found for provider"
ReasonAdapter == "failed to create provider"
ReasonRender == "Failed to render template"
ReasonSend == "Failed to send message"
ReasonNoRecipients == "no recipients found in SMS message"
ReasonSent == "Message sent successfully"

(***************************************************************************)
(* WhatsApp consumer: template, provider, vendor template id and adapter.  *)
(***************************************************************************)
ToLower(s) == CASE s = "TWILIO" -> "twilio" [] s = "SENDGRID" -> "sendgrid" [] OTHER -> s

fetchTemplateFromDB(ch, ref, tenant) ==
  { t \in Templates : t.uuid = ref /\ t.tenant = tenant /\ t.channel = ch /\ t.status = 1 }

fetchProviderFromDB(ch, ref) ==
  { p \in Providers : p.uuid = ref /\ p.channel = ch /\ p.status = 1 }

getProviderTemplateID(t, providerName) == ToLower(providerName) \in t.ids

\* the value getProviderTemplateID returns: the entry of TemplateIds
ProviderTemplateID(t, providerName) == IF ToLower(providerName) \in t.ids THEN t.id ELSE ""

\* the templateID that handleMessage hands to sendToRecipients
WA_templateID(r) ==
  LET ts == fetchTemplateFromDB(ChannelWhatsApp, r.template, r.tenant)
      ps == fetchProviderFromDB(ChannelWhatsApp, r.provider)
  IN  IF ts = {} \/ ps = {} THEN ""
      ELSE ProviderTemplateID(CHOOSE t \in ts : TRUE, (CHOOSE p \in ps : TRUE).provider)

CreateWhatsAppProvider(p) == p.provider = "TWILIO" /\ p.adapter

WA_resolve(r) ==
  LET ts == fetchTemplateFromDB(ChannelWhatsApp, r.template, r.tenant)
      ps == fetchProviderFromDB(ChannelWhatsApp, r.provider)
  IN  IF ts = {} THEN ReasonTemplate
      ELSE IF ps = {} THEN ReasonProvider
      ELSE IF ~getProviderTemplateID(CHOOSE t \in ts : TRUE, (CHOOSE p \in ps : TRUE).provider)
             THEN ReasonTemplateID
      ELSE IF ~CreateWhatsAppProvider(CHOOSE p \in ps : TRUE) THEN ReasonAdapter
      ELSE ""

\* the rejections a failing read of the replica produces in place of WA_resolve's
WA_readFault(r) ==
  LET ts == fetchTemplateFromDB(ChannelWhatsApp, r.template, r.tenant)
      ps == fetchProviderFromDB(ChannelWhatsApp, r.provider)
  IN  {ReasonTemplate}
        \cup (IF ts # {} THEN {ReasonProvider} ELSE {})
        \cup (IF WA_resolve(r) \in {"", ReasonAdapter} THEN {ReasonAdapter} ELSE {})

RenderTemplate(ref) == \E t \in Templates : t.uuid = ref /\ t.parses

EnvOf(w) == topic[wk[w].env]

ReqOf(w) == req[EnvOf(w).uuid]

Unchanged_store == UNCHANGED <<messages, events>>

Unchanged_vendor == UNCHANGED <<attempts, delivered>>

Unchanged_prod == UNCHANGED <<api, call, mig, life, nextUUID, req, prod>>

\* handleMessage: json.Unmarshal, then the lookup of fetchOrCreateMessageFromDB
WA_handleMessage(w) ==
  /\ w \in WhatsAppWorkers
  /\ wk[w].pc = "handle"
  /\ IF EnvOf(w).bad
       THEN Return(w, TRUE) /\ UNCHANGED faults
       ELSE \/ /\ RowsWithUUID(EnvOf(w).uuid) # {}
               /\ wk' = [wk EXCEPT ![w].pc = "resolve", ![w].id = First(EnvOf(w).uuid),
                                   ![w].status = messages[First(EnvOf(w).uuid)].status]
               /\ UNCHANGED <<topic, faults>>
            \/ /\ RowsWithUUID(EnvOf(w).uuid) = {}
               /\ Goto(w, "create")
               /\ UNCHANGED <<topic, faults>>
            \/ /\ CanFail
               /\ Fault
               /\ Goto(w, "create")
               /\ UNCHANGED topic
  /\ Unchanged_prod /\ Unchanged_store /\ Unchanged_vendor

\* fetchOrCreateMessageFromDB: c.db.Create(&newMessage)
WA_fetchOrCreateMessageFromDB(w) ==
  /\ w \in WhatsAppWorkers
  /\ wk[w].pc = "create"
  /\ \/ /\ IF UniqueIndexAllows(EnvOf(w).uuid)
             THEN /\ messages' = Append(messages, NewMessage(EnvOf(w).uuid, ChannelWhatsApp))
                  /\ wk' = [wk EXCEPT ![w].pc = "createEvent", ![w].id = Len(messages) + 1,
                                      ![w].status = StatusAccepted]
                  /\ UNCHANGED topic
             ELSE /\ Return(w, TRUE)
                  /\ UNCHANGED messages
        /\ UNCHANGED faults
     \/ /\ CanFail
        /\ Fault
        /\ Return(w, TRUE)
        /\ UNCHANGED messages
  /\ Unchanged_prod /\ Unchanged_vendor /\ UNCHANGED events

\* fetchOrCreateMessageFromDB: the ACCEPTED event; a failed insert is only logged
WA_createAcceptedEvent(w) ==
  /\ w \in WhatsAppWorkers
  /\ wk[w].pc = "createEvent"
  /\ \/ /\ events' = InsertMessageEvent(EnvOf(w).uuid, StatusAccepted, ReasonCreated)
        /\ UNCHANGED faults
     \/ /\ CanFail
        /\ Fault
        /\ UNCHANGED events
  /\ wk' = [wk EXCEPT ![w].pc = "resolve", ![w].writeFailed = @ \/ faults' # faults]
  /\ Unchanged_prod /\ Unchanged_vendor /\ UNCHANGED <<messages, topic>>

\* handleMessage: fetchTemplateFromDB .. createProviderFromConfig
WA_resolveStep(w) ==
  /\ w \in WhatsAppWorkers
  /\ wk[w].pc = "resolve"
  /\ \/ /\ wk' = [wk EXCEPT ![w].pc = IF WA_resolve(ReqOf(w)) = "" THEN "markAccepted" ELSE "rejSave",
                            ![w].reason = WA_resolve(ReqOf(w)),
                            ![w].templateID = WA_templateID(ReqOf(w))]
        /\ UNCHANGED faults
     \/ /\ CanFail
        /\ Fault
        /\ \E why \in WA_readFault(ReqOf(w)) :
             wk' = [wk EXCEPT ![w].pc = "rejSave", ![w].reason = why]
  /\ Unchanged_prod /\ Unchanged_store /\ Unchanged_vendor /\ UNCHANGED topic

\* rejectMessage: message.Status = REJECTED; c.db.Save(message)
WA_rejectMessage(w) ==
  /\ w \in WhatsAppWorkers
  /\ wk[w].pc = "rejSave"
  /\ \/ /\ messages' = Save(wk[w].id, StatusRejected)
        /\ wk' = [wk EXCEPT ![w].pc = "rejEvent", ![w].status = StatusRejected]
        /\ UNCHANGED <<topic, faults>>
     \/ /\ CanFail
        /\ Fault
        /\ Return(w, TRUE)
        /\ UNCHANGED messages
  /\ Unchanged_prod /\ Unchanged_vendor /\ UNCHANGED events

\* what rejectMessage returns after its event insert: errors.New(reason), or the
\* insert's error
WA_rejectMessageErr(inserted) == TRUE

\* rejectMessage: createRejectionEvent, then return
WA_createRejectionEvent(w) ==
  /\ w \in WhatsAppWorkers
  /\ wk[w].pc = "rejEvent"
  /\ \/ /\ events' = InsertMessageEvent(EnvOf(w).uuid, StatusRejected, wk[w].reason)
        /\ Return(w, WA_rejectMessageErr(TRUE))
        /\ UNCHANGED faults
     \/ /\ CanFail
        /\ Fault
        /\ Return(w, WA_rejectMessageErr(FALSE))
        /\ UNCHANGED events
  /\ Unchanged_prod /\ Unchanged_vendor /\ UNCHANGED messages

\* handleMessage: dbMessage.Status = ACCEPTED; c.db.Save(dbMessage)
WA_markAccepted(w) ==
  /\ w \in WhatsAppWorkers
  /\ wk[w].pc = "markAccepted"
  /\ \/ /\ messages' = Save(wk[w].id, StatusAccepted)
        /\ wk' = [wk EXCEPT ![w].pc = IF ReqOf(w).n = 0 THEN "final" ELSE "send",
                            ![w].status = StatusAccepted, ![w].idx = 1,
                            ![w].atLeastOneSuccess = FALSE]
        /\ UNCHANGED <<topic, faults>>
     \/ /\ CanFail
        /\ Fault
        /\ Return(w, TRUE)
        /\ UNCHANGED messages
  /\ Unchanged_prod /\ Unchanged_vendor /\ UNCHANGED events

\* the loop of sendToRecipients moves to the next recipient, or ends
NextRecipient(w) == IF wk[w].idx >= ReqOf(w).n THEN "final" ELSE "send"

VendorCall(u, i, accepted) ==
  /\ attempts' = [attempts EXCEPT ![u][i] = @ + 1]
  /\ delivered' = IF accepted THEN [delivered EXCEPT ![u][i] = @ + 1] ELSE delivered

\* sendToRecipients: RenderTemplate and whatsappProvider.SendTemplate of
\* wk[w].templateID for the recipient at idx; the batch-level success flag follows the success event
WA_sendToRecipients(w) ==
  /\ w \in WhatsAppWorkers
  /\ wk[w].pc = "send"
  /\ IF ~RenderTemplate(ReqOf(w).template)
       THEN /\ wk' = [wk EXCEPT ![w].pc = "rcpSave", ![w].status = StatusRejected,
                                ![w].reason = ReasonRender]
            /\ Unchanged_vendor
       ELSE \E accepted \in BOOLEAN :
              /\ VendorCall(EnvOf(w).uuid, wk[w].idx, accepted)
              /\ wk' = IF accepted
                         THEN [wk EXCEPT ![w].pc = "okEvent"]
                         ELSE [wk EXCEPT ![w].pc = "rcpSave", ![w].status = StatusRejected,
                                         ![w].reason = ReasonSend]
  /\ Unchanged_prod /\ Unchanged_store /\ UNCHANGED <<topic, faults>>

\* sendToRecipients: c.db.Save(dbMessage) with Status REJECTED; a failure is logged
WA_recipientRejected(w) ==
  /\ w \in WhatsAppWorkers
  /\ wk[w].pc = "rcpSave"
  /\ \/ /\ messages' = Save(wk[w].id, StatusRejected)
        /\ UNCHANGED faults
     \/ /\ CanFail
        /\ Fault
        /\ UNCHANGED messages
  /\ wk' = [wk EXCEPT ![w].pc = "rcpEvent", ![w].writeFailed = @ \/ faults' # faults]
  /\ Unchanged_prod /\ Unchanged_vendor /\ UNCHANGED <<events, topic>>

\* sendToRecipients: createRejectionEvent for the recipient; a failure is logged
WA_recipientRejectionEvent(w) ==
  /\ w \in WhatsAppWorkers
  /\ wk[w].pc = "rcpEvent"
  /\ \/ /\ events' = InsertMessageEvent(EnvOf(w).uuid, StatusRejected, wk[w].reason)
        /\ UNCHANGED faults
     \/ /\ CanFail
        /\ Fault
        /\ UNCHANGED events
  /\ wk' = [wk EXCEPT ![w].pc = NextRecipient(w), ![w].idx = @ + 1,
                      ![w].writeFailed = @ \/ faults' # faults]
  /\ Unchanged_prod /\ Unchanged_vendor /\ UNCHANGED <<messages, topic>>

\* sendToRecipients: createSuccessEvent; atLeastOneSuccess is set when it succeeds
WA_createSuccessEvent(w) ==
  /\ w \in WhatsAppWorkers
  /\ wk[w].pc = "okEvent"
  /\ \/ /\ events' = InsertMessageEvent(EnvOf(w).uuid, StatusSent, ReasonSent)
        /\ wk' = [wk EXCEPT ![w].pc = NextRecipient(w), ![w].idx = @ + 1,
                            ![w].atLeastOneSuccess = TRUE]
        /\ UNCHANGED faults
     \/ /\ CanFail
        /\ Fault
        /\ wk' = [wk EXCEPT ![w].pc = NextRecipient(w), ![w].idx = @ + 1,
                            ![w].writeFailed = TRUE]
        /\ UNCHANGED events
  /\ Unchanged_prod /\ Unchanged_vendor /\ UNCHANGED <<messages, topic>>

WA_finalStatus(atLeastOneSuccess) == IF atLeastOneSuccess THEN StatusSent ELSE StatusRejected

\* sendToRecipients: the final status and its Save; a failure is logged
WA_saveFinalStatus(w) ==
  /\ w \in WhatsAppWorkers
  /\ wk[w].pc = "final"
  /\ \/ /\ messages' = Save(wk[w].id, WA_finalStatus(wk[w].atLeastOneSuccess))
        /\ UNCHANGED faults
     \/ /\ CanFail
        /\ Fault
        /\ UNCHANGED messages
  /\ wk' = [wk EXCEPT ![w].pc = "timestamp", ![w].status = WA_finalStatus(wk[w].atLeastOneSuccess),
                      ![w].writeFailed = @ \/ faults' # faults]
  /\ Unchanged_prod /\ Unchanged_vendor /\ UNCHANGED <<events, topic>>

\* updateMessageTimestamp: Save of the worker's copy; its error is handleMessage's
WA_updateMessageTimestamp(w) ==
  /\ w \in WhatsAppWorkers
  /\ wk[w].pc = "timestamp"
  /\ \/ /\ messages' = Save(wk[w].id, wk[w].status)
        /\ Return(w, FALSE)
        /\ UNCHANGED faults
     \/ /\ CanFail
        /\ Fault
        /\ Return(w, TRUE)
        /\ UNCHANGED messages
  /\ Unchanged_prod /\ Unchanged_vendor /\ UNCHANGED events

WhatsAppConsumer(w) ==
  \/ WA_handleMessage(w)
  \/ WA_fetchOrCreateMessageFromDB(w)
  \/ WA_createAcceptedEvent(w)
  \/ WA_resolveStep(w)
  \/ WA_rejectMessage(w)
  \/ WA_createRejectionEvent(w)
  \/ WA_markAccepted(w)
  \/ WA_sendToRecipients(w)
  \/ WA_recipientRejected(w)
  \/ WA_recipientRejectionEvent(w)
  \/ WA_createSuccessEvent(w)
  \/ WA_saveFinalStatus(w)
  \/ WA_updateMessageTimestamp(w)

Producers(ch) ==
  \/ \E r \in RequestsOf(ch) : ProduceStart(ch, r)
  \/ \E r \in RequestsOf(ch) : DirectPushStart(ch, r)
  \/ \E u \in UUIDs : ProduceCreate(u)
  \/ \E u \in UUIDs : ProduceMessage(u)
  \/ \E r \in RequestsOf(ch), bad \in BOOLEAN : ExternalPublish(ch, r, bad)
  \/ \E e \in EnvIds : ExternalRepublish(e)

NextWA ==
  \/ Producers(ChannelWhatsApp)
  \/ \E w \in WhatsAppWorkers : Receive(w) \/ Crash(w) \/ WhatsAppConsumer(w)

SpecWA == Init /\ [][NextWA]_vars

(***************************************************************************)
(* SMS consumer (SMSConsumer.processSMSMessage).  It sends to To[0] only,  *)
(* rejects the whole message on a render or vendor failure, and its        *)
(* rejectMessage returns the event insert's result.                        *)
(***************************************************************************)
\* a factory that returns an adapter for every provider row
CreateSMSProvider_any(p) == TRUE

CreateSMSProvider(p) == p.provider \in {"TWILIO", "twilio", "Twilio"} /\ p.adapter

\* the templateName that processSMSMessage hands to SendTemplate: template.Name
SMS_templateName(r) ==
  LET ts == fetchTemplateFromDB(ChannelSMS, r.template, r.tenant)
  IN  IF ts = {} THEN "" ELSE (CHOOSE t \in ts : TRUE).name

SMS_resolve(r) ==
  LET ts == fetchTemplateFromDB(ChannelSMS, r.template, r.tenant)
      ps == fetchProviderFromDB(ChannelSMS, r.provider)
  IN  IF ts = {} THEN ReasonTemplate
      ELSE IF ps = {} THEN ReasonProvider
      ELSE IF ~CreateSMSProvider(CHOOSE p \in ps : TRUE) THEN ReasonAdapter
      ELSE ""

SMS_readFault(r) ==
  {ReasonTemplate}
    \cup (IF fetchTemplateFromDB(ChannelSMS, r.template, r.tenant) # {} THEN {ReasonProvider} ELSE {})

\* processSMSMessage: json.Unmarshal, then the lookup of fetchOrCreateMessageFromDB
SMS_processSMSMessage(w) ==
  /\ w \in SMSWorkers
  /\ wk[w].pc = "handle"
  /\ IF EnvOf(w).bad
       THEN Return(w, TRUE) /\ UNCHANGED faults
       ELSE \/ /\ RowsWithUUID(EnvOf(w).uuid) # {}
               /\ wk' = [wk EXCEPT ![w].pc = "resolve", ![w].id = First(EnvOf(w).uuid),
                                   ![w].status = messages[First(EnvOf(w).uuid)].status]
               /\ UNCHANGED <<topic, faults>>
            \/ /\ RowsWithUUID(EnvOf(w).uuid) = {}
               /\ Goto(w, "create")
               /\ UNCHANGED <<topic, faults>>
            \/ /\ CanFail
               /\ Fault
               /\ Goto(w, "create")
               /\ UNCHANGED topic
  /\ Unchanged_prod /\ Unchanged_store /\ Unchanged_vendor

\* fetchOrCreateMessageFromDB: c.db.Create(&newMessage)
SMS_fetchOrCreateMessageFromDB(w) ==
  /\ w \in SMSWorkers
  /\ wk[w].pc = "create"
  /\ \/ /\ IF UniqueIndexAllows(EnvOf(w).uuid)
             THEN /\ messages' = Append(messages, NewMessage(EnvOf(w).uuid, ChannelSMS))
                  /\ wk' = [wk EXCEPT ![w].pc = "createEvent", ![w].id = Len(messages) + 1,
                                      ![w].status = StatusAccepted]
                  /\ UNCHANGED topic
             ELSE /\ Return(w, TRUE)
                  /\ UNCHANGED messages
        /\ UNCHANGED faults
     \/ /\ CanFail
        /\ Fault
        /\ Return(w, TRUE)
        /\ UNCHANGED messages
  /\ Unchanged_prod /\ Unchanged_vendor /\ UNCHANGED events

\* fetchOrCreateMessageFromDB: the ACCEPTED event, keyed by the new row's ID
SMS_createAcceptedEvent(w) ==
  /\ w \in SMSWorkers
  /\ wk[w].pc = "createEvent"
  /\ \/ /\ events' = InsertMessageEvent(messages[wk[w].id].uuid, StatusAccepted, ReasonCreated)
        /\ UNCHANGED faults
     \/ /\ CanFail
        /\ Fault
        /\ UNCHANGED events
  /\ wk' = [wk EXCEPT ![w].pc = "resolve", ![w].writeFailed = @ \/ faults' # faults]
  /\ Unchanged_prod /\ Unchanged_vendor /\ UNCHANGED <<messages, topic>>

\* processSMSMessage: fetchTemplateFromDB, the provider query, CreateSMSProvider
SMS_resolveStep(w) ==
  /\ w \in SMSWorkers
  /\ wk[w].pc = "resolve"
  /\ \/ /\ wk' = [wk EXCEPT ![w].pc = IF SMS_resolve(ReqOf(w)) = "" THEN "markAccepted" ELSE "rejSave",
                            ![w].reason = SMS_resolve(ReqOf(w)),
                            ![w].templateID = SMS_templateName(ReqOf(w))]
        /\ UNCHANGED faults
     \/ /\ CanFail
        /\ Fault
        /\ \E why \in SMS_readFault(ReqOf(w)) :
             wk' = [wk EXCEPT ![w].pc = "rejSave", ![w].reason = why]
  /\ Unchanged_prod /\ Unchanged_store /\ Unchanged_vendor /\ UNCHANGED topic

\* rejectMessage: message.Status = REJECTED; c.db.Save(message)
SMS_rejectMessage(w) ==
  /\ w \in SMSWorkers
  /\ wk[w].pc = "rejSave"
  /\ \/ /\ messages' = Save(wk[w].id, StatusRejected)
        /\ wk' = [wk EXCEPT ![w].pc = "rejEvent", ![w].status = StatusRejected]
        /\ UNCHANGED <<topic, faults>>
     \/ /\ CanFail
        /\ Fault
        /\ Return(w, TRUE)
        /\ UNCHANGED messages
  /\ Unchanged_prod /\ Unchanged_vendor /\ UNCHANGED events

\* what rejectMessage returns: the result of createRejectionEvent
SMS_rejectMessageErr(inserted) == ~inserted

\* rejectMessage: createRejectionEvent(message.ID, reason), then return
SMS_createRejectionEvent(w) ==
  /\ w \in SMSWorkers
  /\ wk[w].pc = "rejEvent"
  /\ \/ /\ events' = InsertMessageEvent(messages[wk[w].id].uuid, StatusRejected, wk[w].reason)
        /\ Return(w, SMS_rejectMessageErr(TRUE))
        /\ UNCHANGED faults
     \/ /\ CanFail
        /\ Fault
        /\ Return(w, SMS_rejectMessageErr(FALSE))
        /\ UNCHANGED events
  /\ Unchanged_prod /\ Unchanged_vendor /\ UNCHANGED messages

\* processSMSMessage: Status = ACCEPTED and Save; then the empty recipient list
\* and the render of the template, each of which rejects the message
SMS_markAccepted(w) ==
  /\ w \in SMSWorkers
  /\ wk[w].pc = "markAccepted"
  /\ \/ /\ messages' = Save(wk[w].id, StatusAccepted)
        /\ wk' = [wk EXCEPT ![w].status = StatusAccepted, ![w].idx = 1,
                            ![w].pc = IF ReqOf(w).n = 0 \/ ~RenderTemplate(ReqOf(w).template)
                                        THEN "rejSave" ELSE "send",
                            ![w].reason = IF ReqOf(w).n = 0 THEN ReasonNoRecipients
                                          ELSE IF ~RenderTemplate(ReqOf(w).template)
                                                 THEN ReasonRender ELSE ""]
        /\ UNCHANGED <<topic, faults>>
     \/ /\ CanFail
        /\ Fault
        /\ Return(w, TRUE)
        /\ UNCHANGED messages
  /\ Unchanged_prod /\ Unchanged_vendor /\ UNCHANGED events

\* processSMSMessage: smsService.SendTemplate(message.To[0].Telephone,
\* wk[w].templateID, ...)
SMS_SendTemplate(w) ==
  /\ w \in SMSWorkers
  /\ wk[w].pc = "send"
  /\ \E accepted \in BOOLEAN :
       /\ VendorCall(EnvOf(w).uuid, 1, accepted)
       /\ wk' = IF accepted
                  THEN [wk EXCEPT ![w].pc = "okEvent"]
                  ELSE [wk EXCEPT ![w].pc = "rejSave", ![w].reason = ReasonSend]
  /\ Unchanged_prod /\ Unchanged_store /\ UNCHANGED <<topic, faults>>

\* processSMSMessage: createSuccessEvent(dbMessage.ID); a failure is logged
SMS_createSuccessEvent(w) ==
  /\ w \in SMSWorkers
  /\ wk[w].pc = "okEvent"
  /\ \/ /\ events' = InsertMessageEvent(messages[wk[w].id].uuid, StatusSent, ReasonSent)
        /\ UNCHANGED faults
     \/ /\ CanFail
        /\ Fault
        /\ UNCHANGED events
  /\ wk' = [wk EXCEPT ![w].pc = "final", ![w].writeFailed = @ \/ faults' # faults]
  /\ Unchanged_prod /\ Unchanged_vendor /\ UNCHANGED <<messages, topic>>

\* processSMSMessage: Status = SENT and Save; a failure is logged
SMS_saveSent(w) ==
  /\ w \in SMSWorkers
  /\ wk[w].pc = "final"
  /\ \/ /\ messages' = Save(wk[w].id, StatusSent)
        /\ UNCHANGED faults
     \/ /\ CanFail
        /\ Fault
        /\ UNCHANGED messages
  /\ wk' = [wk EXCEPT ![w].pc = "timestamp", ![w].status = StatusSent,
                      ![w].writeFailed = @ \/ faults' # faults]
  /\ Unchanged_prod /\ Unchanged_vendor /\ UNCHANGED <<events, topic>>

\* updateMessageTimestamp: Save of the worker's copy; its error is the handler's
SMS_updateMessageTimestamp(w) ==
  /\ w \in SMSWorkers
  /\ wk[w].pc = "timestamp"
  /\ \/ /\ messages' = Save(wk[w].id, wk[w].status)
        /\ Return(w, FALSE)
        /\ UNCHANGED faults
     \/ /\ CanFail
        /\ Fault
        /\ Return(w, TRUE)
        /\ UNCHANGED messages
  /\ Unchanged_prod /\ Unchanged_vendor /\ UNCHANGED events

SMSConsumer(w) ==
  \/ SMS_processSMSMessage(w)
  \/ SMS_fetchOrCreateMessageFromDB(w)
  \/ SMS_createAcceptedEvent(w)
  \/ SMS_resolveStep(w)
  \/ SMS_rejectMessage(w)
  \/ SMS_createRejectionEvent(w)
  \/ SMS_markAccepted(w)
  \/ SMS_SendTemplate(w)
  \/ SMS_createSuccessEvent(w)
  \/ SMS_saveSent(w)
  \/ SMS_updateMessageTimestamp(w)

NextSMS ==
  \/ Producers(ChannelSMS)
  \/ \E w \in SMSWorkers : Receive(w) \/ Crash(w) \/ SMSConsumer(w)

SpecSMS == Init /\ [][NextSMS]_vars

(***************************************************************************)
(* Email consumer (EmailConsumer.handleMessage).  It marks the message     *)
(* SENT before it resolves anything, hands all recipients to the vendor in *)
(* one call, and finishes at DELIVERED.  updateMessageStatus reads the row *)
(* by UUID, saves it and inserts an event without a reason.                *)
(***************************************************************************)
NewSendGridProviderFromDB(p) == p.adapter

ProcessTemplate(ref) == \E t \in Templates : t.uuid = ref /\ t.parses

\* the lookups of handleMessage and of SendEmail: by uuid and channel only
EM_resolve(r) ==
  LET ts == { t \in Templates : t.uuid = r.template /\ t.channel = ChannelEmail }
      ps == { p \in Providers : p.uuid = r.provider /\ p.channel = ChannelEmail }
  IN  IF ts = {} THEN ReasonTemplate
      ELSE IF ps = {} THEN ReasonProvider
      ELSE IF ~NewSendGridProviderFromDB(CHOOSE p \in ps : TRUE) THEN ReasonAdapter
      ELSE IF ~ProcessTemplate(r.template) THEN ReasonRender
      ELSE ""

\* handleMessage: json.Unmarshal, then the lookup of ensureMessageExists
EM_handleMessage(w) ==
  /\ w \in EmailWorkers
  /\ wk[w].pc = "handle"
  /\ IF EnvOf(w).bad
       THEN Return(w, TRUE) /\ UNCHANGED faults
       ELSE \/ /\ RowsWithUUID(EnvOf(w).uuid) # {}
               /\ wk' = [wk EXCEPT ![w].pc = "usFind", ![w].status = StatusSent]
               /\ UNCHANGED <<topic, faults>>
            \/ /\ RowsWithUUID(EnvOf(w).uuid) = {}
               /\ Goto(w, "create")
               /\ UNCHANGED <<topic, faults>>
            \/ /\ CanFail
               /\ Fault
               /\ Goto(w, "create")
               /\ UNCHANGED topic
  /\ Unchanged_prod /\ Unchanged_store /\ Unchanged_vendor

\* ensureMessageExists: c.db.Create(&newMessage)
EM_ensureMessageExists(w) ==
  /\ w \in EmailWorkers
  /\ wk[w].pc = "create"
  /\ \/ /\ IF UniqueIndexAllows(EnvOf(w).uuid)
             THEN /\ messages' = Append(messages, NewMessage(EnvOf(w).uuid, ChannelEmail))
                  /\ Goto(w, "createEvent")
                  /\ UNCHANGED topic
             ELSE /\ Return(w, TRUE)
                  /\ UNCHANGED messages
        /\ UNCHANGED faults
     \/ /\ CanFail
        /\ Fault
        /\ Return(w, TRUE)
        /\ UNCHANGED messages
  /\ Unchanged_prod /\ Unchanged_vendor /\ UNCHANGED events

\* ensureMessageExists: the ACCEPTED event; then updateMessageStatus(SENT)
EM_createAcceptedEvent(w) ==
  /\ w \in EmailWorkers
  /\ wk[w].pc = "createEvent"
  /\ \/ /\ events' = InsertMessageEvent(EnvOf(w).uuid, StatusAccepted, ReasonCreated)
        /\ UNCHANGED faults
     \/ /\ CanFail
        /\ Fault
        /\ UNCHANGED events
  /\ wk' = [wk EXCEPT ![w].pc = "usFind", ![w].status = StatusSent,
                      ![w].writeFailed = @ \/ faults' # faults]
  /\ Unchanged_prod /\ Unchanged_vendor /\ UNCHANGED <<messages, topic>>

\* where handleMessage goes when updateMessageStatus(wk[w].status) returns err
EM_afterUpdate(w, err) ==
  IF wk[w].status = StatusSent
    THEN /\ wk' = [wk EXCEPT ![w].pc = "resolve",
                            ![w].writeFailed = @ \/ (err /\ wk[w].pc \in {"usSave", "usEvent"})]
         /\ UNCHANGED topic
    ELSE IF wk[w].status = StatusRejected
           THEN Return(w, TRUE)
           ELSE Return(w, err)

\* updateMessageStatus: c.db.Where("uuid = ?", uuid).First(&message)
EM_updateMessageStatusFind(w) ==
  /\ w \in EmailWorkers
  /\ wk[w].pc = "usFind"
  /\ \/ /\ RowsWithUUID(EnvOf(w).uuid) # {}
        /\ wk' = [wk EXCEPT ![w].pc = "usSave", ![w].id = First(EnvOf(w).uuid)]
        /\ UNCHANGED <<topic, faults>>
     \/ /\ RowsWithUUID(EnvOf(w).uuid) = {}
        /\ EM_afterUpdate(w, TRUE)
        /\ UNCHANGED faults
     \/ /\ CanFail
        /\ Fault
        /\ EM_afterUpdate(w, TRUE)
  /\ Unchanged_prod /\ Unchanged_store /\ Unchanged_vendor

\* updateMessageStatus: message.Status = status; c.db.Save(&message)
EM_updateMessageStatusSave(w) ==
  /\ w \in EmailWorkers
  /\ wk[w].pc = "usSave"
  /\ \/ /\ messages' = Save(wk[w].id, wk[w].status)
        /\ Goto(w, "usEvent")
        /\ UNCHANGED <<topic, faults>>
     \/ /\ CanFail
        /\ Fault
        /\ EM_afterUpdate(w, TRUE)
        /\ UNCHANGED messages
  /\ Unchanged_prod /\ Unchanged_vendor /\ UNCHANGED events

\* updateMessageStatus: return c.db.Create(&event)
EM_updateMessageStatusEvent(w) ==
  /\ w \in EmailWorkers
  /\ wk[w].pc = "usEvent"
  /\ \/ /\ events' = InsertMessageEvent(EnvOf(w).uuid, wk[w].status, "")
        /\ EM_afterUpdate(w, FALSE)
        /\ UNCHANGED faults
     \/ /\ CanFail
        /\ Fault
        /\ EM_afterUpdate(w, TRUE)
        /\ UNCHANGED events
  /\ Unchanged_prod /\ Unchanged_vendor /\ UNCHANGED messages

\* handleMessage and SendEmail up to the vendor call: template, provider,
\* NewSendGridProviderFromDB, ProcessTemplate; a failure of any of them, or of
\* a read, leads to updateMessageStatus(REJECTED)
EM_resolveStep(w) ==
  /\ w \in EmailWorkers
  /\ wk[w].pc = "resolve"
  /\ \/ /\ wk' = IF EM_resolve(ReqOf(w)) = ""
                   THEN [wk EXCEPT ![w].pc = "send"]
                   ELSE [wk EXCEPT ![w].pc = "usFind", ![w].status = StatusRejected,
                                   ![w].reason = EM_resolve(ReqOf(w))]
        /\ UNCHANGED faults
     \/ /\ CanFail
        /\ Fault
        /\ wk' = [wk EXCEPT ![w].pc = "usFind", ![w].status = StatusRejected,
                            ![w].reason = ReasonTemplate]
  /\ Unchanged_prod /\ Unchanged_store /\ UNCHANGED topic
  /\ Unchanged_vendor

\* SendEmail: emailProvider.Send(recipients, ...), one call for all recipients
EM_Send(w) ==
  /\ w \in EmailWorkers
  /\ wk[w].pc = "send"
  /\ \E accepted \in BOOLEAN :
       /\ attempts' = [attempts EXCEPT ![EnvOf(w).uuid] =
                         [i \in Rcpts |-> IF i <= ReqOf(w).n THEN @[i] + 1 ELSE @[i]]]
       /\ delivered' = IF accepted
                         THEN [delivered EXCEPT ![EnvOf(w).uuid] =
                                 [i \in Rcpts |-> IF i <= ReqOf(w).n THEN @[i] + 1 ELSE @[i]]]
                         ELSE delivered
       /\ wk' = [wk EXCEPT ![w].pc = "usFind",
                           ![w].status = IF accepted THEN StatusDelivered ELSE StatusRejected,
                           ![w].reason = IF accepted THEN "" ELSE ReasonSend]
  /\ Unchanged_prod /\ Unchanged_store /\ UNCHANGED <<topic, faults>>

EmailConsumer(w) ==
  \/ EM_handleMessage(w)
  \/ EM_ensureMessageExists(w)
  \/ EM_createAcceptedEvent(w)
  \/ EM_updateMessageStatusFind(w)
  \/ EM_updateMessageStatusSave(w)
  \/ EM_updateMessageStatusEvent(w)
  \/ EM_resolveStep(w)
  \/ EM_Send(w)

NextEmail ==
  \/ Producers(ChannelEmail)
  \/ \E w \in EmailWorkers : Receive(w) \/ Crash(w) \/ EmailConsumer(w)

SpecEmail == Init /\ [][NextEmail]_vars

(***************************************************************************)
(* The whole pipeline: the three channels side by side.                    *)
(***************************************************************************)
Next ==
  \/ \E ch \in Channels : Producers(ch)
  \/ \E w \in Workers : Receive(w) \/ Crash(w)
  \/ \E w \in WhatsAppWorkers : WhatsAppConsumer(w)
  \/ \E w \in SMSWorkers : SMSConsumer(w)
  \/ \E w \in EmailWorkers : EmailConsumer(w)

Spec == Init /\ [][Next]_vars

(***************************************************************************)
(* ProcessMessageBatch (SMSAPI; WhatsAppAPI's has the same steps): for     *)
(* each message of the request in order, generate a UUID, append the       *)
(* {refno, uuid} response and call ProduceSMSMessage; the first error ends *)
(* the call with no responses.  Other payloads may be on the topic too.    *)
(***************************************************************************)
RefNos == {"ref-a", "ref-b"}

BatchChannels == {ChannelSMS}

BatchMessages(ch) ==
  { [refno |-> rn, r |-> r] :
      rn \in RefNos,
      r \in { q \in RequestsOf(ch) : q.n = 1 /\ q.provider \in {"pWA", "pSMS"} } }

Batches(ch) == UNION { [1..k -> BatchMessages(ch)] : k \in 1..MaxBatch }

BatchWorkers == SMSWorkers

Unchanged_pipeline == UNCHANGED <<messages, events, topic, wk, attempts, delivered>>

ProcessMessageBatch(ch, msgs) ==
  /\ api.pc = "idle"
  /\ api' = [NoBatch EXCEPT !.pc = "generate", !.ch = ch, !.msgs = msgs, !.idx = 1]
  /\ Unchanged_pipeline
  /\ UNCHANGED <<nextUUID, req, prod, faults, call, mig, life>>

\* helper.GenerateUUID, then responses = append(responses, messageResponse)
Batch_GenerateUUID ==
  /\ api.pc = "generate"
  /\ \/ /\ nextUUID < MaxUUID + MaxBatch
        /\ nextUUID' = nextUUID + 1
        /\ req' = [req EXCEPT ![nextUUID + 1] = api.msgs[api.idx].r]
        /\ prod' = [prod EXCEPT ![nextUUID + 1] = "create"]
        /\ api' = [api EXCEPT !.pc = "produce", !.uuid = nextUUID + 1,
                              !.responses = Append(@, [refno |-> api.msgs[api.idx].refno,
                                                       uuid |-> nextUUID + 1])]
        /\ UNCHANGED faults
     \/ /\ CanFail
        /\ Fault
        /\ api' = [api EXCEPT !.pc = "failed", !.responses = <<>>]
        /\ UNCHANGED <<nextUUID, req, prod>>
  /\ Unchanged_pipeline
  /\ UNCHANGED <<call, mig, life>>

\* the loop with an error of Produce logged and the next message taken up
Batch_AfterProduce_errorSkipped ==
  /\ api.pc = "produce"
  /\ prod[api.uuid] \in {"ok", "createErr", "publishErr"}
  /\ api' = IF api.idx = Len(api.msgs)
              THEN [api EXCEPT !.pc = "done"]
              ELSE [api EXCEPT !.pc = "generate", !.idx = @ + 1]
  /\ Unchanged_pipeline
  /\ UNCHANGED <<nextUUID, req, prod, faults, call, mig, life>>

\* a call that returns the pairs gathered so far together with the error
Batch_AfterProduce_keepsResponses ==
  /\ api.pc = "produce"
  /\ prod[api.uuid] \in {"ok", "createErr", "publishErr"}
  /\ api' = IF prod[api.uuid] # "ok"
              THEN [api EXCEPT !.pc = "failed"]
              ELSE IF api.idx = Len(api.msgs)
                     THEN [api EXCEPT !.pc = "done"]
                     ELSE [api EXCEPT !.pc = "generate", !.idx = @ + 1]
  /\ Unchanged_pipeline
  /\ UNCHANGED <<nextUUID, req, prod, faults, call, mig, life>>

\* the return of Produce<Channel>Message: an error ends the call with
\* (nil, error); otherwise the next message, or (responses, nil) after the last
Batch_AfterProduce ==
  /\ api.pc = "produce"
  /\ prod[api.uuid] \in {"ok", "createErr", "publishErr"}
  /\ api' = IF prod[api.uuid] # "ok"
              THEN [api EXCEPT !.pc = "failed", !.responses = <<>>]
              ELSE IF api.idx = Len(api.msgs)
                     THEN [api EXCEPT !.pc = "done"]
                     ELSE [api EXCEPT !.pc = "generate", !.idx = @ + 1]
  /\ Unchanged_pipeline
  /\ UNCHANGED <<nextUUID, req, prod, faults, call, mig, life>>

NextBatch ==
  \/ \E ch \in BatchChannels : \E msgs \in Batches(ch) : ProcessMessageBatch(ch, msgs)
  \/ Batch_GenerateUUID
  \/ Batch_AfterProduce
  \/ \E u \in UUIDs : ProduceCreate(u) \/ ProduceMessage(u)
  \/ \E m \in BatchMessages(ChannelSMS) : ExternalPublish(ChannelSMS, m.r, FALSE)
  \/ \E w \in BatchWorkers : Receive(w) \/ Crash(w)
  \/ \E w \in BatchWorkers : SMSConsumer(w)

SpecBatch == Init /\ [][NextBatch]_vars

(***************************************************************************)
(* Properties.                                                             *)
(***************************************************************************)
Published == { e \in EnvIds : topic[e].st # "none" }

Handling(u) == { w \in Workers : wk[w].pc # "idle" /\ EnvOf(w).uuid = u }

EventsOf(u, status) ==
  LET rows == { ev \in BagToSet(events) : ev.msg = u /\ ev.status = status }
  IN  BagCardinality([ev \in rows |-> CopiesIn(ev, events)])

Succeeded(u) == { i \in Rcpts : delivered[u][i] > 0 }

\* the envelope is the only one of its UUID, was dispatched once and acknowledged
\* after one vendor call for each of its recipients
ProcessedOnce(e) ==
  /\ topic[e].st = "acked"
  /\ ~topic[e].bad
  /\ topic[e].deliv = 1
  /\ OnTopic(topic[e].uuid) = {e}
  /\ req[topic[e].uuid].n >= 1
  /\ \A i \in 1..req[topic[e].uuid].n : attempts[topic[e].uuid][i] = 1

\* C1: no topic ever holds a producer-published envelope whose UUID has no
\* Message row: the insert comes before the envelope is observable.
C1_RowBeforeEnvelope ==
  \A e \in Published : topic[e].origin = "producer" => RowsWithUUID(topic[e].uuid) # {}

C1_Witness ==
  \E e \in Published :
    /\ topic[e].origin = "producer"
    /\ topic[e].st = "pending"
    /\ topic[e].deliv = 0
    /\ prod[topic[e].uuid] = "ok"

\* C2: when the insert of a Produce call fails the call ends with that error,
\* no envelope of that UUID is on the topic and no Message row has that UUID.
C2_FailedInsertPublishesNothing ==
  \A u \in UUIDs :
    prod[u] = "createErr" => OnTopic(u) = {} /\ RowsWithUUID(u) = {} /\ Handling(u) = {}

C2_Witness == \E u \in UUIDs : prod[u] = "createErr" /\ faults > 0

\* C3: once an envelope's recipients have all been processed, the stored status
\* is SENT if the vendor accepted at least one recipient and REJECTED if it
\* accepted none.
C3_FinalStatusFollowsVendor ==
  \A e \in Published :
    ProcessedOnce(e) =>
      \A i \in RowsWithUUID(topic[e].uuid) :
        messages[i].status =
          IF Succeeded(topic[e].uuid) # {} THEN StatusSent ELSE StatusRejected

\* C4: for an envelope processed once, the SENT events of its UUID number the
\* recipients the vendor accepted and the REJECTED events the recipients it
\* refused.
C4_EventsCountOutcomes ==
  \A e \in Published :
    (ProcessedOnce(e) /\ topic[e].ch = ChannelWhatsApp) =>
      /\ EventsOf(topic[e].uuid, StatusSent) = Cardinality(Succeeded(topic[e].uuid))
      /\ EventsOf(topic[e].uuid, StatusRejected)
           = req[topic[e].uuid].n - Cardinality(Succeeded(topic[e].uuid))

\* C5: in every channel, one processing of an envelope that reaches the vendor
\* makes exactly one send attempt for every recipient of the envelope, whatever
\* the vendor answers for the earlier ones.
C5_EveryRecipientAttempted ==
  \A e \in Published :
    ( /\ topic[e].st = "acked"
      /\ ~topic[e].bad
      /\ topic[e].deliv = 1
      /\ OnTopic(topic[e].uuid) = {e}
      /\ \E i \in Rcpts : attempts[topic[e].uuid][i] > 0 )
    => \A i \in 1..req[topic[e].uuid].n : attempts[topic[e].uuid][i] = 1

\* C6: a handler that ends on the rejection path, having saved REJECTED and
\* appended the REJECTED event, leaves its envelope acknowledged, so the broker
\* does not deliver it again.
C6_RejectionAcknowledges ==
  [][ \A w \in Workers :
        ( /\ wk[w].pc = "rejEvent"
          /\ wk'[w].pc = "idle"
          /\ events' # events )
        => topic'[wk[w].env].st = "acked" ]_vars

\* C7: an envelope for which the vendor has already accepted a recipient is
\* never negatively acknowledged.
C7_NoNackAfterSuccess ==
  [][ \A e \in EnvIds :
        ( /\ topic[e].st = "inflight"
          /\ ~topic[e].bad
          /\ OnTopic(topic[e].uuid) = {e}
          /\ Succeeded(topic[e].uuid) # {} )
        => topic'[e].nacks = topic[e].nacks ]_vars

\* C8: every Message left at SENT or REJECTED by a finished processing has at
\* least one MessageEvent of that status.
C8_TerminalStatusHasEvent ==
  \A i \in DOMAIN messages :
    ( /\ messages[i].status \in {StatusSent, StatusRejected}
      /\ Handling(messages[i].uuid) = {}
      /\ \A e \in OnTopic(messages[i].uuid) : topic[e].st = "acked" )
    => EventsOf(messages[i].uuid, messages[i].status) >= 1

\* C9: under every interleaving of the workers, redeliveries and crashes
\* included, no two Message rows have the same UUID.
C9_OneRowPerUUID == \A u \in UUIDs : Cardinality(RowsWithUUID(u)) <= 1

\* two workers hold the same UUID, both missed the row; one has inserted it and
\* the other is about to insert
C9_Witness ==
  \E w1, w2 \in Workers :
    /\ w1 # w2
    /\ wk[w1].pc = "create"
    /\ wk[w2].pc = "createEvent"
    /\ EnvOf(w1).uuid = EnvOf(w2).uuid
    /\ RowsWithUUID(EnvOf(w1).uuid) # {}

\* C10: after a publish that failed, the row stays ACCEPTED, no envelope of
\* its UUID is on the topic, no worker handles it, the vendor is never called
\* for it and no MessageEvent of it is written.
C10_StrandedAtAccepted ==
  \A u \in UUIDs :
    prod[u] = "publishErr" =>
      /\ RowsWithUUID(u) # {}
      /\ \A i \in RowsWithUUID(u) : messages[i].status = StatusAccepted
      /\ OnTopic(u) = {}
      /\ Handling(u) = {}
      /\ attempts[u] = NoCalls
      /\ \A ev \in BagToSet(events) : ev.msg # u

C10_Witness ==
  \E u \in UUIDs : prod[u] = "publishErr" /\ RowsWithUUID(u) # {} /\ faults > 0

\* C11: when ProcessMessageBatch returns its responses, there is exactly one
\* {refno, uuid} pair per input message, in input order, with the message's
\* refno and the UUID of the row and envelope produced for that message,
\* whatever the consumers have done meanwhile.
C11_BatchResponses ==
  api.pc = "done" =>
    /\ Len(api.responses) = Len(api.msgs)
    /\ \A i \in 1..Len(api.msgs) :
         /\ api.responses[i].refno = api.msgs[i].refno
         /\ req[api.responses[i].uuid] = api.msgs[i].r
         /\ prod[api.responses[i].uuid] = "ok"
         /\ Cardinality(RowsWithUUID(api.responses[i].uuid)) = 1
         /\ \E e \in OnTopic(api.responses[i].uuid) :
              topic[e].origin = "producer" /\ topic[e].ch = api.ch
         /\ \A j \in 1..Len(api.msgs) :
              api.responses[i].uuid = api.responses[j].uuid => i = j

\* a batch of MaxBatch messages has returned and a consumer has already
\* settled the envelope of its first message
C11_Witness ==
  /\ api.pc = "done"
  /\ Len(api.msgs) = MaxBatch
  /\ api.msgs[1].refno = api.msgs[MaxBatch].refno
  /\ \E e \in OnTopic(api.responses[1].uuid) : topic[e].st = "acked"
  /\ \E i \in DOMAIN messages : messages[i].status # StatusAccepted

\* C12: the pipeline only ever stores the Message statuses ACCEPTED, SENT and
\* REJECTED, and appends no MessageEvent with status DELIVERED or READ.
C12_NoDeliveredOrRead ==
  /\ \A i \in DOMAIN messages :
       messages[i].status \in {StatusAccepted, StatusSent, StatusRejected}
  /\ \A ev \in BagToSet(events) : ev.status \notin {StatusDelivered, StatusOpened}

\* C13: a stored status changes only from ACCEPTED to SENT or REJECTED; once it
\* is SENT or REJECTED no later write changes it.
C13_StatusTransitions ==
  [][ \A i \in DOMAIN messages :
        messages'[i].status # messages[i].status
          => /\ messages[i].status = StatusAccepted
             /\ messages'[i].status \in {StatusSent, StatusRejected} ]_vars

C15_EventsAppendOnly ==
  [][ \A ev \in BagToSet(events) : CopiesIn(ev, events') >= CopiesIn(ev, events) ]_vars

\* a redelivered envelope has written the same event a second time
C15_Witness ==
  \E ev \in BagToSet(events) :
    /\ CopiesIn(ev, events) >= 2
    /\ \E e \in OnTopic(ev.msg) : topic[e].deliv = MaxDeliveries

\* C16: every REJECTED event carries a non-empty reason.
C16_RejectedHasReason ==
  \A ev \in BagToSet(events) : ev.status = StatusRejected => ev.reason # ""

(***************************************************************************)
(* The helper functions.  A call is held in the variable call: fn is the   *)
(* function, arg its arguments and out the one-element sequence of its     *)
(* result once it has returned.                                            *)
(***************************************************************************)

MaxTokens == 3

\* keys of the variables map; "1" is a numeric key
Keys == {"name", "1"}

NumericKeys == {"1"}

Values == {"Ann", ""}

\* the pieces of a template's content: literal text, a placeholder {{key}},
\* and an action that is opened and never closed
Text(s) == [kind |-> "text", s |-> s]

Placeholder(k) == [kind |-> "placeholder", s |-> k]

Unclosed == [kind |-> "unclosed", s |-> ""]

VarCall(k) == [kind |-> "var", s |-> k]

Tokens == {Text("Hi ")} \cup { Placeholder(k) : k \in Keys } \cup {Unclosed}

Contents == UNION { [1..n -> Tokens] : n \in 1..MaxTokens }

\* map[string]string: a function on the keys that are present
VariableMaps == UNION { [ks -> Values] : ks \in SUBSET Keys }

\* strings.Replace of "{{key}}" by "{{var \"key\"}}" for the keys of the map
ModifiedTemplate(content, variables) ==
  [ i \in DOMAIN content |->
      IF content[i].kind = "placeholder" /\ content[i].s \in DOMAIN variables
        THEN VarCall(content[i].s)
        ELSE content[i] ]

\* template.Parse: an unclosed action is an error, and so is an action that
\* names a function the FuncMap does not define; a number is a constant
ParseFails(modified) ==
  \E i \in DOMAIN modified :
    \/ modified[i].kind = "unclosed"
    \/ modified[i].kind = "placeholder" /\ modified[i].s \notin NumericKeys

\* tmpl.Execute: the text, the value of var for a call, the number itself
Execute(modified, variables) ==
  [ i \in DOMAIN modified |->
      CASE modified[i].kind = "var" ->
             (IF modified[i].s \in DOMAIN variables
                THEN variables[modified[i].s] ELSE "")
        [] modified[i].kind = "placeholder" -> modified[i].s
        [] OTHER -> modified[i].s ]

helper_RenderTemplate(templateContent, variables) ==
  LET modified == ModifiedTemplate(templateContent, variables)
  IN  IF ParseFails(modified)
        THEN [err |-> "failed to parse template", out |-> <<>>]
        ELSE [err |-> "", out |-> Execute(modified, variables)]

\* ---- AES-256 in CFB mode and base64 (helper/crypto.go) ------------------

KeyLen == 32

BlockSize == 16

MaxPlain == 18

\* the multipliers from which the sample byte strings are built
Patterns == {1, 37}

Min(a, b) == IF a < b THEN a ELSE b

RECURSIVE XorBits(_, _, _)
XorBits(a, b, n) ==
  IF n = 0 THEN 0
  ELSE (((a % 2) + (b % 2)) % 2) + 2 * XorBits(a \div 2, b \div 2, n - 1)

\* the XOR of two bytes
Xor(a, b) == XorBits(a, b, 8)

Bytes(n, m) == [i \in 1..n |-> (m * i) % 256]

\* a key the environment can hold: of the right length or not
GoodKeys == { Bytes(KeyLen, m) : m \in Patterns }

BadKeys == { Bytes(n, 1) : n \in {0, BlockSize, KeyLen - 1, KeyLen + 1} }

EnvKeys == GoodKeys \cup BadKeys

\* []byte("12345678901234567890123456789012")
DevKey == [i \in 1..KeyLen |-> 48 + (i % 10)]

Plaintexts == { Bytes(n, m) : n \in 0..MaxPlain, m \in Patterns \cup {0, 255} }

\* what rand.Reader can deliver as the initialisation vector
IVs == { [i \in 1..BlockSize |-> (b + (3 * i)) % 256] : b \in {0, 200} }

\* block.Encrypt: a keyed function of one block; both directions of CFB use
\* the cipher in this direction only
BlockEncrypt(block, key) ==
  [ i \in 1..BlockSize |->
      ((7 * block[i]) + block[(i % BlockSize) + 1] + key[i] + (3 * key[i + BlockSize]) + i) % 256 ]

\* stream.XORKeyStream of a CFB stream: each block is XORed with the
\* encryption of the previous ciphertext block, the first with that of the iv
RECURSIVE XORKeyStream(_, _, _, _)
XORKeyStream(data, key, prev, decrypt) ==
  IF data = <<>> THEN <<>>
  ELSE LET n    == Min(BlockSize, Len(data))
           ks   == BlockEncrypt(prev, key)
           head == [i \in 1..n |-> Xor(data[i], ks[i])]
           rest == SubSeq(data, n + 1, Len(data))
       IN  IF rest = <<>> THEN head
           ELSE head \o XORKeyStream(rest, key,
                                     IF decrypt THEN SubSeq(data, 1, n) ELSE head,
                                     decrypt)

EncryptAES256(plaintext, key, iv) ==
  IF Len(key) # KeyLen
    THEN [err |-> "encryption key must be 32 bytes for AES-256", data |-> <<>>]
    ELSE [err |-> "", data |-> iv \o XORKeyStream(plaintext, key, iv, FALSE)]

\* a decryption that feeds its own output back in place of the ciphertext
DecryptAES256_feedsPlaintext(ciphertext, key) ==
  IF Len(key) # KeyLen
    THEN [err |-> "decryption key must be 32 bytes for AES-256", data |-> <<>>]
  ELSE IF Len(ciphertext) < BlockSize
    THEN [err |-> "ciphertext too short", data |-> <<>>]
  ELSE [err |-> "",
        data |-> XORKeyStream(SubSeq(ciphertext, BlockSize + 1, Len(ciphertext)), key,
                              SubSeq(ciphertext, 1, BlockSize), FALSE)]

DecryptAES256(ciphertext, key) ==
  IF Len(key) # KeyLen
    THEN [err |-> "decryption key must be 32 bytes for AES-256", data |-> <<>>]
  ELSE IF Len(ciphertext) < BlockSize
    THEN [err |-> "ciphertext too short", data |-> <<>>]
  ELSE [err |-> "",
        data |-> XORKeyStream(SubSeq(ciphertext, BlockSize + 1, Len(ciphertext)), key,
                              SubSeq(ciphertext, 1, BlockSize), TRUE)]

\* base64.StdEncoding: a string is a sequence of 6-bit digits, Pad is '='
Pad == 64

RECURSIVE EncodeToString(_)
EncodeToString(src) ==
  IF src = <<>> THEN <<>>
  ELSE IF Len(src) = 1
    THEN << src[1] \div 4, (src[1] % 4) * 16, Pad, Pad >>
  ELSE IF Len(src) = 2
    THEN << src[1] \div 4, ((src[1] % 4) * 16) + (src[2] \div 16), (src[2] % 16) * 4, Pad >>
  ELSE << src[1] \div 4, ((src[1] % 4) * 16) + (src[2] \div 16),
          ((src[2] % 16) * 4) + (src[3] \div 64), src[3] % 64 >>
         \o EncodeToString(SubSeq(src, 4, Len(src)))

\* the quantum of four digits q decoded to its bytes
DecodeQuantum(q) ==
  LET b1 == ((q[1] * 4) + (q[2] \div 16)) % 256
      b2 == (((q[2] % 16) * 16) + (q[3] \div 4)) % 256
      b3 == (((q[3] % 4) * 64) + q[4]) % 256
  IN  IF q[3] = Pad THEN <<b1>> ELSE IF q[4] = Pad THEN <<b1, b2>> ELSE <<b1, b2, b3>>

\* padding stands only at the end of the last quantum
WellPadded(s) ==
  /\ Len(s) % 4 = 0
  /\ \A i \in DOMAIN s :
       s[i] = Pad => /\ i > Len(s) - 2
                     /\ \A j \in i..Len(s) : s[j] = Pad

RECURSIVE DecodeQuanta(_)
DecodeQuanta(s) ==
  IF s = <<>> THEN <<>>
  ELSE DecodeQuantum(SubSeq(s, 1, 4)) \o DecodeQuanta(SubSeq(s, 5, Len(s)))

DecodeString(s) ==
  IF WellPadded(s) THEN [err |-> "", data |-> DecodeQuanta(s)]
  ELSE [err |-> "illegal base64 data", data |-> <<>>]

EncryptAndBase64Encode(data, key, iv) ==
  LET encrypted == EncryptAES256(data, key, iv)
  IN  IF encrypted.err # "" THEN encrypted
      ELSE [err |-> "", data |-> EncodeToString(encrypted.data)]

EncryptAndEncodeBase64(plaintext, key, iv) == EncryptAndBase64Encode(plaintext, key, iv)

DecodeBase64AndDecrypt(encoded, key) ==
  LET decoded == DecodeString(encoded)
  IN  IF decoded.err # "" THEN decoded ELSE DecryptAES256(decoded.data, key)

\* strings given to the decoding functions directly
Ciphertexts == { Bytes(n, m) : n \in {0, BlockSize - 1, BlockSize, BlockSize + 3}, m \in Patterns }

Encoded == { EncodeToString(c) : c \in Ciphertexts } \cup { <<1, 2, 3>>, <<1, Pad, 2, 3>> }

\* ---- the SecureConfig of a Provider ------------------------------------

\* json.Marshal of a SecureConfig that the adapters can parse
SecureConfigs == { Bytes(n, 37) : n \in {5, BlockSize + 2} }

\* ProviderAPI.encryptSecureConfig under the ENCRYPTION_KEY envKey
encryptSecureConfig(secureConfig, envKey, iv) ==
  LET encryptionKey == IF Len(envKey) # KeyLen THEN DevKey ELSE envKey
      encryptedBase64 == EncryptAndEncodeBase64(secureConfig, encryptionKey, iv)
  IN  IF encryptedBase64.err # ""
        THEN [err |-> "failed to encrypt secure config", data |-> <<>>]
        ELSE [err |-> "", data |-> encryptedBase64.data]

\* a constructor that takes a missing "encrypted" member for an empty secret
DecryptSecureConfig_emptySecret(encrypted, encryptionKey) == [err |-> "", data |-> encrypted]

\* the part of New<Vendor>ProviderFromDB after the key is chosen: the
\* "encrypted" member, its decryption and the parse of the plaintext
DecryptSecureConfig(encrypted, encryptionKey) ==
  IF encrypted = <<>>
    THEN [err |-> "secure config is not in the expected format", data |-> <<>>]
  ELSE LET decodedBytes == DecodeBase64AndDecrypt(encrypted, encryptionKey)
       IN  IF decodedBytes.err # ""
             THEN [err |-> "failed to decrypt provider secure config", data |-> <<>>]
           ELSE IF decodedBytes.data \notin SecureConfigs
             THEN [err |-> "failed to parse provider secure config", data |-> <<>>]
           ELSE decodedBytes

KeyError == [err |-> "ENCRYPTION_KEY environment variable not set or invalid", data |-> <<>>]

whatsapp_NewTwilioProviderFromDB(encrypted, envKey) ==
  IF Len(envKey) # KeyLen THEN KeyError ELSE DecryptSecureConfig(encrypted, envKey)

email_NewSendGridProviderFromDB(encrypted, envKey) ==
  IF Len(envKey) # KeyLen THEN KeyError ELSE DecryptSecureConfig(encrypted, envKey)

sms_NewTwilioProviderFromDB(encrypted, envKey) ==
  DecryptSecureConfig(encrypted, IF Len(envKey) # KeyLen THEN DevKey ELSE envKey)

NewProviderFromDB(ch, encrypted, envKey) ==
  CASE ch = ChannelWhatsApp -> whatsapp_NewTwilioProviderFromDB(encrypted, envKey)
    [] ch = ChannelSMS      -> sms_NewTwilioProviderFromDB(encrypted, envKey)
    [] ch = ChannelEmail    -> email_NewSendGridProviderFromDB(encrypted, envKey)

\* Provider.SecureConfig as a row holds it: the "encrypted" member (<<>> when
\* absent or empty) and what its other members spell out in the clear
StoredSecureConfigs ==
  { [encrypted |-> e, plain |-> p] :
      e \in {<<>>, <<1, 2, 3>>, EncodeToString(Bytes(BlockSize + 3, 1))},
      p \in {<<>>} \cup SecureConfigs }

\* json.Unmarshal(secureConfigJSON, &encryptedData); encryptedData.Encrypted
SecureConfigEncrypted(stored) == stored.encrypted

\* ---- the subject of an Email (EmailServiceImpl.SendEmail) ----------------

\* a string is the sequence of its non-empty pieces; "" is <<>>
Pieces(q) == SelectSeq(q, LAMBDA x : x # "")

\* helper.ProcessTemplate: template.Parse fails on an unclosed action and on an
\* action naming an undefined function; Execute writes the text and, for
\* {{var "key"}}, the parameter or "" when the key is absent
ProcessTemplate_text(templateString, params) ==
  IF \E i \in DOMAIN templateString : templateString[i].kind \in {"unclosed", "placeholder"}
    THEN [err |-> "template: parse error", out |-> <<>>]
    ELSE [err |-> "",
          out |-> Pieces([ i \in DOMAIN templateString |->
                    IF templateString[i].kind = "var"
                      THEN (IF templateString[i].s \in DOMAIN params
                              THEN params[templateString[i].s] ELSE "")
                      ELSE templateString[i].s ])]

\* the template subject as it is stored, actions unexpanded
RawText(templateString) ==
  Pieces([ i \in DOMAIN templateString |->
            CASE templateString[i].kind = "var" -> "{{var " \o templateString[i].s \o "}}"
              [] templateString[i].kind = "unclosed" -> "{{"
              [] OTHER -> templateString[i].s ])

DefaultSubject == <<"Notification">>

\* SendEmail: message.Subject, then message.Params["subject"], then the
\* processed template.Subject (the raw one when processing fails), then
\* template.Name, then "Notification"
SendEmail_subject(messageSubject, params, templateSubject, templateName) ==
  LET s1 == IF messageSubject = <<>> /\ "subject" \in DOMAIN params
              THEN Pieces(<<params["subject"]>>) ELSE messageSubject
      processed == ProcessTemplate_text(templateSubject, params)
      s2 == IF s1 = <<>> /\ RawText(templateSubject) # <<>>
              THEN (IF processed.err # "" THEN RawText(templateSubject) ELSE processed.out)
              ELSE s1
  IN  IF s2 # <<>> THEN s2
      ELSE IF templateName # <<>> THEN templateName ELSE DefaultSubject

RequestSubjects == {<<>>, <<"Your order">>}

SubjectParams == UNION { [ks -> {"Ann", ""}] : ks \in SUBSET {"name", "subject"} }

TemplateSubjects ==
  { <<>>, <<Text("Hi ")>>, <<VarCall("name")>>, <<Text("Hi "), VarCall("name")>>,
    <<Unclosed>>, <<Text("Hi "), Unclosed>> }

TemplateNames == {<<>>, <<"welcome">>}

\* ---- the provider factories ---------------------------------------------

\* a discriminator is the sequence of its characters
TWILIO == <<84, 87, 73, 76, 73, 79>>

SENDGRID == <<83, 69, 78, 68, 71, 82, 73, 68>>

MSG91 == <<77, 83, 71, 57, 49>>

ToUpper(s) == [i \in DOMAIN s |-> IF s[i] \in 97..122 THEN s[i] - 32 ELSE s[i]]

\* the name with its first n characters kept and the others in lower case
Cased(name, n) ==
  [i \in DOMAIN name |-> IF i > n /\ name[i] \in 65..90 THEN name[i] + 32 ELSE name[i]]

Discriminators ==
  { Cased(name, n) : name \in {TWILIO, SENDGRID, MSG91}, n \in {0, 1, 8} } \cup {<<>>}

Unsupported == "unsupported provider implementation"

\* a factory's result: the error, and the implementation it selected
Selected(impl, adapter) ==
  IF adapter THEN [err |-> "", impl |-> impl]
  ELSE [err |-> "failed to create provider", impl |-> ""]

services_CreateWhatsAppProvider(provider, adapter) ==
  IF provider = TWILIO THEN Selected("whatsapp.TwilioProvider", adapter)
  ELSE [err |-> Unsupported, impl |-> ""]

providers_CreateSMSProvider(provider, adapter) ==
  IF ToUpper(provider) = TWILIO THEN Selected("sms.TwilioProvider", adapter)
  ELSE [err |-> Unsupported, impl |-> ""]

providers_CreateEmailProvider(provider, adapter) ==
  IF ToUpper(provider) \in {SENDGRID, TWILIO} THEN Selected("email.SendGridProvider", adapter)
  ELSE [err |-> Unsupported, impl |-> ""]

CreateProvider(ch, provider, adapter) ==
  CASE ch = ChannelWhatsApp -> services_CreateWhatsAppProvider(provider, adapter)
    [] ch = ChannelSMS      -> providers_CreateSMSProvider(provider, adapter)
    [] ch = ChannelEmail    -> providers_CreateEmailProvider(provider, adapter)

\* ---- the calls -----------------------------------------------------------

ACall(fn, arg) == [fn |-> fn, arg |-> arg, out |-> <<>>]

RenderCalls == { ACall("RenderTemplate", <<c, v>>) : c \in Contents, v \in VariableMaps }

EncryptCalls ==
  { ACall(fn, <<s, k>>) : fn \in {"EncryptAES256", "EncryptAndBase64Encode"},
                          s \in Plaintexts, k \in EnvKeys }

DecryptCalls ==
  { ACall("DecryptAES256", <<c, k>>) : c \in Ciphertexts, k \in EnvKeys }
    \cup { ACall("DecodeBase64AndDecrypt", <<c, k>>) : c \in Encoded, k \in EnvKeys }

SecureConfigCalls ==
  { ACall("encryptSecureConfig", <<sc, k, ch>>) :
      sc \in SecureConfigs, k \in EnvKeys, ch \in Channels }

StoredConfigCalls ==
  { ACall("NewProviderFromDB", <<ch, sc, k>>) :
      ch \in Channels, sc \in StoredSecureConfigs, k \in EnvKeys }

SubjectCalls ==
  { ACall("SendEmail", <<ms, ps, ts, tn>>) :
      ms \in RequestSubjects, ps \in SubjectParams, ts \in TemplateSubjects, tn \in TemplateNames }

FactoryCalls ==
  { ACall("CreateProvider", <<ch, d, a>>) :
      ch \in Channels, d \in Discriminators, a \in BOOLEAN }

InitHelper ==
  /\ nextUUID = 0
  /\ req = [u \in UUIDs |-> NoRequest]
  /\ prod = [u \in UUIDs |-> "none"]
  /\ messages = <<>>
  /\ events = EmptyBag
  /\ topic = [e \in EnvIds |-> NoEnvelope]
  /\ wk = [w \in Workers |-> Idle]
  /\ attempts = [u \in UUIDs |-> NoCalls]
  /\ delivered = [u \in UUIDs |-> NoCalls]
  /\ faults = 0
  /\ api = NoBatch
  /\ mig = NoMigrations
  /\ life = NoLifecycle
  /\ \/ call \in RenderCalls
     \/ call \in EncryptCalls
     \/ call \in DecryptCalls
     \/ call \in SecureConfigCalls
     \/ call \in StoredConfigCalls
     \/ call \in SubjectCalls
     \/ call \in FactoryCalls

Unchanged_state ==
  UNCHANGED <<nextUUID, req, prod, messages, events, topic, wk, attempts,
              delivered, faults, api, mig, life>>

Returns(result) ==
  /\ call' = [call EXCEPT !.out = Append(call.out, result)]
  /\ Unchanged_state

Call_RenderTemplate ==
  /\ call.fn = "RenderTemplate" /\ call.out = <<>>
  /\ Returns(helper_RenderTemplate(call.arg[1], call.arg[2]))

Call_EncryptAES256 ==
  /\ call.fn = "EncryptAES256" /\ call.out = <<>>
  /\ \E iv \in IVs : Returns(EncryptAES256(call.arg[1], call.arg[2], iv))

\* DecryptAES256 of a given ciphertext, or of what EncryptAES256 returned
Call_DecryptAES256 ==
  \/ /\ call.fn = "DecryptAES256" /\ call.out = <<>>
     /\ Returns(DecryptAES256(call.arg[1], call.arg[2]))
  \/ /\ call.fn = "EncryptAES256" /\ Len(call.out) = 1 /\ call.out[1].err = ""
     /\ Returns(DecryptAES256(call.out[1].data, call.arg[2]))

Call_EncryptAndBase64Encode ==
  /\ call.fn = "EncryptAndBase64Encode" /\ call.out = <<>>
  /\ \E iv \in IVs : Returns(EncryptAndBase64Encode(call.arg[1], call.arg[2], iv))

Call_DecodeBase64AndDecrypt ==
  \/ /\ call.fn = "DecodeBase64AndDecrypt" /\ call.out = <<>>
     /\ Returns(DecodeBase64AndDecrypt(call.arg[1], call.arg[2]))
  \/ /\ call.fn = "EncryptAndBase64Encode" /\ Len(call.out) = 1 /\ call.out[1].err = ""
     /\ Returns(DecodeBase64AndDecrypt(call.out[1].data, call.arg[2]))

\* provider creation or update: the SecureConfig is stored encrypted
Call_encryptSecureConfig ==
  /\ call.fn = "encryptSecureConfig" /\ call.out = <<>>
  /\ \E iv \in IVs : Returns(encryptSecureConfig(call.arg[1], call.arg[2], iv))

\* the adapter of the provider's channel is built from the stored SecureConfig
Call_NewProviderFromDB ==
  \/ /\ call.fn = "encryptSecureConfig" /\ Len(call.out) = 1 /\ call.out[1].err = ""
     /\ Returns(NewProviderFromDB(call.arg[3], call.out[1].data, call.arg[2]))
  \/ /\ call.fn = "NewProviderFromDB" /\ call.out = <<>>
     /\ Returns(NewProviderFromDB(call.arg[1], SecureConfigEncrypted(call.arg[2]), call.arg[3]))

\* the subject SendEmail hands to the provider's Send
Call_SendEmail ==
  /\ call.fn = "SendEmail" /\ call.out = <<>>
  /\ Returns(SendEmail_subject(call.arg[1], call.arg[2], call.arg[3], call.arg[4]))

Call_CreateProvider ==
  /\ call.fn = "CreateProvider" /\ call.out = <<>>
  /\ Returns(CreateProvider(call.arg[1], call.arg[2], call.arg[3]))

NextHelper ==
  \/ Call_RenderTemplate
  \/ Call_EncryptAES256
  \/ Call_DecryptAES256
  \/ Call_EncryptAndBase64Encode
  \/ Call_DecodeBase64AndDecrypt
  \/ Call_encryptSecureConfig
  \/ Call_NewProviderFromDB
  \/ Call_SendEmail
  \/ Call_CreateProvider

SpecHelper == InitHelper /\ [][NextHelper]_vars

Returned(fn) == call.fn = fn /\ call.out # <<>>

\* a template every action of which is a closed {{key}} placeholder
SyntacticallyValid(content) == \A i \in DOMAIN content : content[i].kind # "unclosed"

\* the keys a template refers to
Referenced(content) == { content[i].s : i \in { j \in DOMAIN content : content[j].kind = "placeholder" } }

\* the map with every referenced key it lacks bound to the empty string
WithEmpty(content, variables) ==
  [ k \in DOMAIN variables \cup Referenced(content) |->
      IF k \in DOMAIN variables THEN variables[k] ELSE "" ]

\* C17: RenderTemplate returns no error for a syntactically valid template
\* whatever the variables map is, the empty map and maps lacking referenced
\* keys included, and a placeholder whose key is absent renders as "".
C17_RenderTotal ==
  (Returned("RenderTemplate") /\ SyntacticallyValid(call.arg[1]))
    => /\ call.out[1].err = ""
       /\ call.out[1].out =
            helper_RenderTemplate(call.arg[1], WithEmpty(call.arg[1], call.arg[2])).out

\* C18: for every byte string s and every 32-byte key k, decrypting what
\* EncryptAES256 returned gives s back, and so does DecodeBase64AndDecrypt of
\* what EncryptAndBase64Encode returned.
C18_RoundTrip ==
  \A fn \in {"EncryptAES256", "EncryptAndBase64Encode"} :
    (call.fn = fn /\ Len(call.arg[2]) = KeyLen /\ call.out # <<>>)
      => /\ call.out[1].err = ""
         /\ Len(call.out) = 2 => call.out[2] = [err |-> "", data |-> call.arg[1]]

\* a plaintext longer than one block went through base64 and came back, and
\* its ciphertext was not the plaintext
C18_Witness ==
  /\ call.fn = "EncryptAndBase64Encode"
  /\ Len(call.out) = 2
  /\ Len(call.arg[1]) > BlockSize
  /\ call.out[2].data = call.arg[1]
  /\ \A iv \in IVs : DecodeString(call.out[1].data).data # iv \o call.arg[1]

\* C19: an encryption key whose length is not 32 is an error everywhere:
\* Encrypt and Decrypt return an error for it, and provider creation and the
\* construction of each channel's adapter fail under it.
C19_BadKeyIsError ==
  /\ \A fn \in {"EncryptAES256", "EncryptAndBase64Encode", "DecryptAES256",
                "DecodeBase64AndDecrypt"} :
       (call.fn = fn /\ Len(call.arg[2]) # KeyLen /\ call.out # <<>>)
         => call.out[1].err # ""
  /\ (call.fn = "encryptSecureConfig" /\ Len(call.arg[2]) # KeyLen)
       => \A i \in DOMAIN call.out : call.out[i].err # ""

\* C20: every channel's factory treats the discriminator without regard to
\* case and returns an error for a discriminator that names no implementation.
C20_FactoryCaseInsensitive ==
  Returned("CreateProvider")
    => LET known == IF call.arg[1] = ChannelEmail THEN {SENDGRID, TWILIO} ELSE {TWILIO}
       IN  /\ call.out[1] = CreateProvider(call.arg[1], ToUpper(call.arg[2]), call.arg[3])
           /\ ToUpper(call.arg[2]) \notin known => call.out[1].err = Unsupported

(***************************************************************************)
(* The migrations.  mig.dir is the set of updates-<version>.go files of    *)
(* the image, mig.applied the versions recorded in app_update, mig.ran the *)
(* migration functions whose changes the database holds, in order; queue,  *)
(* appliedMap and run are the locals of the ApplyMigrations call under     *)
(* way, failed the version and the error that ended the latest call.       *)
(***************************************************************************)

\* a version is the sequence of its three numeric components
MigrationVersions == { <<0, 0, 2>>, <<0, 0, 9>>, <<0, 0, 10>>, <<0, 1, 0>>, <<1, 0, 0>> }

\* the decimal digits of a component, as strings.Split returns it
Digits(n) == IF n < 10 THEN <<n>> ELSE <<n \div 10, n % 10>>

\* the Go operator < on strings: byte-wise lexicographic
StringLess(a, b) ==
  \E k \in 1..(Min(Len(a), Len(b)) + 1) :
    /\ \A i \in 1..(k - 1) : a[i] = b[i]
    /\ \/ k > Len(a) /\ k <= Len(b)
       \/ k <= Len(a) /\ k <= Len(b) /\ a[k] < b[k]

\* the less function that getSortedVersions hands to sort.Slice
VersionLess(v1, v2) ==
  \E k \in 1..Min(Len(v1), Len(v2)) :
    /\ \A i \in 1..(k - 1) : Digits(v1[i]) = Digits(v2[i])
    /\ Digits(v1[k]) # Digits(v2[k])
    /\ StringLess(Digits(v1[k]), Digits(v2[k]))

\* the same comparison made on the numbers
VersionLess_numeric(v1, v2) ==
  \E k \in 1..Min(Len(v1), Len(v2)) :
    /\ \A i \in 1..(k - 1) : v1[i] = v2[i]
    /\ v1[k] < v2[k]

\* sort.Slice of the versions: the arrangement that less orders
SortedBy(versions, Less(_, _)) ==
  CHOOSE q \in [1..Cardinality(versions) -> versions] :
    \A i, j \in DOMAIN q : i < j => Less(q[i], q[j])

getSortedVersions(migrationsList) == SortedBy(migrationsList, VersionLess)

\* strings.ReplaceAll(version, ".", "")
VersionDigits(v) == Digits(v[1]) \o Digits(v[2]) \o Digits(v[3])

\* what the init functions of the migration files have registered
MigrationRegistry == { VersionDigits(v) : v \in MigrationVersions }

getMigrationFunction(v) == VersionDigits(v) \in MigrationRegistry

\* LoadMigrationsFromDir: the files of the directory that have a function
LoadMigrationsFromDir(dir) == { v \in dir : getMigrationFunction(v) }

Unchanged_service ==
  UNCHANGED <<nextUUID, req, prod, messages, events, topic, wk, attempts,
              delivered, faults, api, call, life>>

\* a release adds a migration file to the image while the service is down
AddMigration(v) ==
  /\ mig.pc = "down"
  /\ v \notin mig.dir
  /\ mig' = [mig EXCEPT !.dir = @ \cup {v}]
  /\ Unchanged_service

\* ApplyDatabaseUpdates up to the loop of ApplyMigrations: the files are
\* loaded, app_update is read into appliedMap, the versions are sorted (a
\* failure of db.AutoMigrate or db.Find ends the start-up with nothing changed)
ApplyDatabaseUpdates ==
  /\ mig.pc = "down"
  /\ mig' = [mig EXCEPT !.pc = "apply",
                        !.appliedMap = mig.applied,
                        !.queue = getSortedVersions(LoadMigrationsFromDir(mig.dir)),
                        !.run = <<>>,
                        !.failed = <<>>]
  /\ Unchanged_service

MigrationFailed == "migration failed"
RecordFailed == "failed to record migration"

\* what the closure handed to db.Transaction returns: nil, the error of
\* migrateFn or the error of tx.Create
TransactionErrors == {"", MigrationFailed, RecordFailed}

\* a transaction that keeps what was written before the error
Transaction_keeps(db, tx, err) == tx

\* db.Transaction: commit when the closure returns nil, roll back otherwise
Transaction(db, tx, err) == IF err = "" THEN tx ELSE db

\* one turn of the loop of ApplyMigrations; the turn that fails returns the
\* error and leaves the rest of the sorted versions untouched
ApplyMigrations ==
  /\ mig.pc = "apply" /\ mig.queue # <<>>
  /\ LET version == Head(mig.queue)
     IN  IF version \in mig.appliedMap \/ ~getMigrationFunction(version)
           THEN mig' = [mig EXCEPT !.queue = Tail(@)]
           ELSE \E err \in TransactionErrors :
                  LET db == [applied |-> mig.applied, ran |-> mig.ran]
                      tx == [applied |-> IF err = "" THEN mig.applied \cup {version}
                                                     ELSE mig.applied,
                             ran |-> Append(mig.ran, version)]
                      kept == Transaction(db, tx, err)
                  IN  mig' = [mig EXCEPT !.applied = kept.applied,
                                         !.ran = kept.ran,
                                         !.queue = IF err = "" THEN Tail(@) ELSE @,
                                         !.run = IF err = "" THEN Append(@, version) ELSE @,
                                         !.pc = IF err = "" THEN @ ELSE "down",
                                         !.failed = IF err = "" THEN @ ELSE <<version, err>>]
  /\ Unchanged_service

\* the loop is over: ApplyMigrations returns nil; later the service stops
MigrationsCompleted ==
  /\ mig.pc = "apply" /\ mig.queue = <<>>
  /\ mig' = [mig EXCEPT !.pc = "down"]
  /\ Unchanged_service

NextMigrate ==
  \/ \E v \in MigrationVersions : AddMigration(v)
  \/ ApplyDatabaseUpdates
  \/ ApplyMigrations
  \/ MigrationsCompleted

SpecMigrate == Init /\ [][NextMigrate]_vars

\* C21: ApplyMigrations applies the pending migrations in ascending numeric
\* order of their versions (0.0.9 before 0.0.10), applies no version twice
\* over any number of start-ups, and records every applied version in
\* app_update.
C21_MigrationsInOrderOnce ==
  /\ \A i, j \in DOMAIN mig.run :
       i < j => VersionLess_numeric(mig.run[i], mig.run[j])
  /\ \A i, j \in DOMAIN mig.ran : mig.ran[i] = mig.ran[j] => i = j
  /\ { mig.ran[i] : i \in DOMAIN mig.ran } = mig.applied

\* C22: the vendor is first called for a Message while its stored status is the
\* processing marker ACCEPTED, and the stored status is never SENT while the
\* vendor has accepted no recipient of the Message.
C22_AcceptedBeforeSend ==
  /\ [](\A i \in DOMAIN messages :
          messages[i].status = StatusSent => Succeeded(messages[i].uuid) # {})
  /\ [][ \A u \in UUIDs :
           (attempts[u] = NoCalls /\ attempts'[u] # NoCalls)
             => \A i \in RowsWithUUID(u) : messages[i].status = StatusAccepted ]_vars

C24_MalformedIsNacked ==
  /\ [](\A e \in EnvIds : topic[e].bad => topic[e].st # "acked")
  /\ [][ \A w \in Workers :
           (wk[w].pc # "idle" /\ EnvOf(w).bad /\ wk'[w] # wk[w] /\ faults' = faults)
             => /\ topic' = [topic EXCEPT ![wk[w].env].st = "pending",
                                          ![wk[w].env].nacks = @ + 1]
                /\ wk'[w].pc = "idle"
                /\ messages' = messages
                /\ events' = events ]_vars

\* a malformed payload has been handed out and refused as often as the broker
\* redelivers, while another envelope was processed to its end
C24_Witness ==
  \E e \in EnvIds :
    /\ topic[e].bad
    /\ topic[e].nacks = MaxDeliveries
    /\ \E f \in EnvIds : topic[f].st = "acked"

\* the template, and the provider, that the request of u is entitled to use
TemplateMatches(u) ==
  \E t \in Templates : /\ t.uuid = req[u].template
                       /\ t.tenant = req[u].tenant
                       /\ t.channel = req[u].ch
                       /\ t.status = 1

ProviderMatches(u) ==
  \E p \in Providers : p.uuid = req[u].provider /\ p.channel = req[u].ch /\ p.status = 1

\* a handler that holds the row of its envelope returns, no store, broker or
\* worker failure having happened, with the reason why it rejected the Message
RejectedWith(w, why) ==
  /\ \A i \in RowsWithUUID(EnvOf(w).uuid) : messages'[i].status = StatusRejected
  /\ CopiesIn([msg |-> EnvOf(w).uuid, status |-> StatusRejected, reason |-> why], events') >= 1

Returning(w) ==
  /\ wk[w].pc \notin {"idle", "handle", "create"}
  /\ ~EnvOf(w).bad
  /\ wk'[w].pc = "idle"
  /\ faults' = 0

\* C25: the vendor is called for a Message only if a template matches the
\* request's template reference, its tenant, the channel and is active; for
\* any other reference the handler ends with the Message REJECTED for
\* "template not found or inactive".
C25_TemplateResolved ==
  /\ [](\A u \in UUIDs : attempts[u] # NoCalls => TemplateMatches(u))
  /\ [][ \A w \in Workers :
           (Returning(w) /\ ~TemplateMatches(EnvOf(w).uuid))
             => RejectedWith(w, ReasonTemplate) ]_vars

\* C26: the vendor is called for a Message only if a provider matches the
\* request's provider reference, the channel and is active; for any other
\* reference the handler ends with the Message REJECTED for "provider not found
\* or inactive".
C26_ProviderResolved ==
  /\ [](\A u \in UUIDs : attempts[u] # NoCalls => ProviderMatches(u))
  /\ [][ \A w \in Workers :
           (Returning(w) /\ TemplateMatches(EnvOf(w).uuid) /\ ~ProviderMatches(EnvOf(w).uuid))
             => RejectedWith(w, ReasonProvider) ]_vars

\* the entry of Template.TemplateIds under the lower-cased Provider.Provider of
\* the template and provider the request of u names; "" when there is none
TemplateIdEntry(u) ==
  LET ts == { t \in Templates : t.uuid = req[u].template /\ t.channel = req[u].ch }
      ps == { p \in Providers : p.uuid = req[u].provider /\ p.channel = req[u].ch }
  IN  IF ts = {} \/ ps = {} THEN ""
      ELSE LET t == CHOOSE x \in ts : TRUE
               p == CHOOSE x \in ps : TRUE
           IN  IF ToLower(p.provider) \in t.ids THEN t.id ELSE ""

TemplateIdChannels == {ChannelWhatsApp, ChannelSMS}

\* C27: on the WhatsApp and SMS channels the vendor is called for a Message
\* only if Template.TemplateIds has an entry under the lower-cased
\* Provider.Provider, every vendor call passes that entry as the template id,
\* and a handler that resolved template and provider but found no entry ends
\* with the Message REJECTED for "template ID not found for provider".
C27_TemplateIdLookedUp ==
  /\ [](\A u \in UUIDs :
          (req[u].ch \in TemplateIdChannels /\ attempts[u] # NoCalls) => TemplateIdEntry(u) # "")
  /\ [][ \A w \in Workers :
           (/\ wk[w].pc # "idle"
            /\ ~EnvOf(w).bad
            /\ wk'[w] # wk[w]
            /\ ReqOf(w).ch \in TemplateIdChannels
            /\ attempts'[EnvOf(w).uuid] # attempts[EnvOf(w).uuid])
             => wk[w].templateID = TemplateIdEntry(EnvOf(w).uuid) ]_vars
  /\ [][ \A w \in Workers :
           (/\ Returning(w)
            /\ ReqOf(w).ch \in TemplateIdChannels
            /\ TemplateMatches(EnvOf(w).uuid)
            /\ ProviderMatches(EnvOf(w).uuid)
            /\ TemplateIdEntry(EnvOf(w).uuid) = "")
             => RejectedWith(w, ReasonTemplateID) ]_vars

\* the provider the request of u names is one whose adapter the factory can
\* construct: a known vendor with credentials that decrypt and a full config
AdapterBuilds(u) ==
  \E p \in Providers : /\ p.uuid = req[u].provider
                       /\ p.channel = req[u].ch
                       /\ ToLower(p.provider) = "twilio"
                       /\ p.adapter

WritePcs ==
  {"create", "createEvent", "rejSave", "rejEvent", "markAccepted", "rcpSave", "rcpEvent",
   "okEvent", "final", "timestamp", "usSave", "usEvent"}

\* C29: a consumer never acknowledges an envelope during whose processing a
\* status write or an event write failed: neither in the step in which the
\* write fails nor in any later step of the same processing.
C29_NoAckAfterFailedWrite ==
  [][ \A w \in Workers :
        (/\ wk[w].pc # "idle"
         /\ ~EnvOf(w).bad
         /\ \/ wk[w].writeFailed
            \/ (wk[w].pc \in WritePcs /\ faults' # faults /\ wk'[w] # wk[w]))
          => topic'[wk[w].env].st # "acked" ]_vars

\* the envelope the worker handles is the only one of its UUID and this is its
\* first delivery
FirstProcessing(w) ==
  /\ \A e \in EnvIds : (topic[e].st # "none" /\ topic[e].uuid = EnvOf(w).uuid) => e = wk[w].env
  /\ EnvOf(w).deliv = 1

\* C30: on the WhatsApp and SMS channels a render failure for a recipient
\* appends one REJECTED event and, while recipients remain, the handler goes on
\* to the next one; a handler whose template fails to render for each of the
\* n recipients returns having made no vendor call, with exactly n REJECTED
\* render events appended and the envelope acknowledged.
C30_RenderFailurePerRecipient ==
  /\ [][ \A w \in Workers :
           (/\ wk[w].pc # "idle"
            /\ ~EnvOf(w).bad
            /\ ReqOf(w).ch \in TemplateIdChannels
            /\ wk[w].reason = ReasonRender
            /\ wk'[w] # wk[w]
            /\ events' # events)
             => /\ events' = events (+) SetToBag({MessageEvent(EnvOf(w).uuid, StatusRejected, ReasonRender)})
                /\ wk[w].idx < ReqOf(w).n => wk'[w].pc # "idle" ]_vars
  /\ [][ \A w \in Workers :
           (/\ Returning(w)
            /\ ReqOf(w).ch \in TemplateIdChannels
            /\ wk[w].reason = ReasonRender
            /\ FirstProcessing(w))
             => /\ topic'[wk[w].env].st = "acked"
                /\ attempts'[EnvOf(w).uuid] = NoCalls
                /\ CopiesIn(MessageEvent(EnvOf(w).uuid, StatusRejected, ReasonRender), events')
                     = ReqOf(w).n ]_vars

Crashes(w) == faults' # faults /\ wk'[w] = Idle /\ topic' = [topic EXCEPT ![wk[w].env].st = "pending"]

\* the consume loop of a worker: between Receive and the return of the
\* handler the envelope stays in flight with the worker that received it, the
\* worker receives no other envelope, and when the handler returns the worker
\* issues exactly one of Ack and Nack; at updateMessageTimestamp, whose error is
\* the handler's, it Acks if and only if the Save succeeded
ConsumeLoopDiscipline ==
  /\ [](\A w \in Workers : wk[w].pc # "idle" =>
          /\ topic[wk[w].env].st = "inflight"
          /\ \A v \in Workers : (wk[v].pc # "idle" /\ wk[v].env = wk[w].env) => v = w)
  /\ [][ \A w \in Workers :
           (wk[w].pc # "idle" /\ wk'[w] # wk[w])
             => /\ wk'[w].pc # "idle" => (wk'[w].env = wk[w].env /\ topic' = topic)
                /\ wk'[w].pc = "idle"
                     => \/ Crashes(w)
                        \/ topic' = Ack(wk[w].env)
                        \/ topic' = Nack(wk[w].env)
                /\ (wk[w].pc = "timestamp" /\ ~Crashes(w))
                     => (topic' = Ack(wk[w].env) <=> faults' = faults) ]_vars

\* C32: a worker that received an envelope keeps it in flight until its handler
\* returns, receives nothing else meanwhile, then issues exactly one of Ack and
\* Nack, Ack exactly when the handler returned no error; and an envelope it
\* acknowledges with the Message sent has had every one of its recipients
\* attempted.
C32_OneSettlementAfterCompletion ==
  /\ ConsumeLoopDiscipline
  /\ [][ \A w \in Workers :
           (/\ wk[w].pc # "idle"
            /\ ~EnvOf(w).bad
            /\ wk[w].status \in {StatusSent, StatusDelivered}
            /\ topic' = Ack(wk[w].env)
            /\ topic' # topic)
             => \A i \in 1..ReqOf(w).n : attempts'[EnvOf(w).uuid][i] >= 1 ]_vars

(***************************************************************************)
(* SMSConsumer's life cycle: Start and Stop, called one after the other by  *)
(* whoever owns the consumer, and the consume goroutines that Start spawns. *)
(* The fields running and consumer are plain struct fields: Start and Stop  *)
(* write them and every consume goroutine reads them with no lock, channel  *)
(* or atomic between them.  A goroutine's read of running therefore yields  *)
(* the value last written or the value the goroutine saw before.            *)
(***************************************************************************)
Unchanged_others ==
  UNCHANGED <<nextUUID, req, prod, messages, events, topic, wk, attempts,
              delivered, faults, api, call, mig>>

Alive(l) == life.loops[l].pc \notin {"none", "exited", "panic"}

\* Start: a no-op when running; otherwise Subscribe, whose result is assigned to
\* c.consumer whether or not it failed, then running = true and go c.consume()
Start ==
  /\ life.calls < MaxCalls
  /\ IF life.running
       THEN life' = [life EXCEPT !.calls = @ + 1, !.last = "Start"]
       ELSE \/ life' = [life EXCEPT !.calls = @ + 1, !.last = "Start", !.consumer = 0]
            \/ \E l \in Loops :
                 /\ life.loops[l].pc = "none"
                 /\ \A k \in Loops : k < l => life.loops[k].pc # "none"
                 /\ life' = [life EXCEPT !.calls = @ + 1, !.last = "Start",
                                         !.consumer = life.calls + 1,
                                         !.running = TRUE,
                                         !.loops[l] = [pc |-> "test", seen |-> TRUE, msg |-> 0]]
  /\ Unchanged_others

\* Stop: a no-op when not running; otherwise running = false and Close
Stop ==
  /\ life.calls < MaxCalls
  /\ IF ~life.running
       THEN life' = [life EXCEPT !.calls = @ + 1, !.last = "Stop"]
       ELSE life' = [life EXCEPT !.calls = @ + 1, !.last = "Stop",
                                 !.running = FALSE,
                                 !.closed = IF life.consumer # 0 THEN @ \cup {life.consumer} ELSE @]
  /\ Unchanged_others

\* consume: for c.running
consume_test(l) ==
  /\ life.loops[l].pc = "test"
  /\ \E r \in {life.running, life.loops[l].seen} :
       life' = [life EXCEPT !.loops[l].pc = IF r THEN "receive" ELSE "exited",
                            !.loops[l].seen = r]
  /\ Unchanged_others

\* consume: c.consumer.Receive(ctx); an error or the deadline is followed by
\* continue
consume_Receive(l) ==
  /\ life.loops[l].pc = "receive"
  /\ IF life.consumer = 0
       THEN life' = [life EXCEPT !.loops[l].pc = "panic"]
       ELSE IF life.consumer \in life.closed
              THEN life' = [life EXCEPT !.loops[l].pc = "test"]
              ELSE \/ life' = [life EXCEPT !.loops[l].pc = "test"]
                   \/ life' = [life EXCEPT !.loops[l].pc = "process", !.loops[l].msg = life.consumer]
  /\ Unchanged_others

\* consume: c.processSMSMessage(msg) has returned; c.consumer.Nack(msg) or
\* c.consumer.Ack(msg)
consume_settle(l) ==
  /\ life.loops[l].pc = "process"
  /\ life' = IF life.consumer = 0
               THEN [life EXCEPT !.loops[l].pc = "panic"]
               ELSE [life EXCEPT !.loops[l].pc = "test", !.loops[l].msg = 0]
  /\ Unchanged_others

NextLifecycle ==
  \/ Start
  \/ Stop
  \/ \E l \in Loops : consume_test(l) \/ consume_Receive(l) \/ consume_settle(l)

SpecLifecycle == Init /\ [][NextLifecycle]_vars

\* C33: no field of the SMSConsumer is written while a consume goroutine that
\* reads it is alive: running and consumer keep their values for as long as a
\* consume loop runs.
C33_NoSharedInProcessVariable ==
  [][ (\E l \in Loops : Alive(l))
        => (life'.running = life.running /\ life'.consumer = life.consumer) ]_vars

\* a call of Start or Stop is made in this step
Calls(name) == life'.calls # life.calls /\ life'.last = name

NoOp == life' = [life EXCEPT !.calls = life'.calls, !.last = life'.last]

\* C39: Start while running and Stop while not running change nothing; at most
\* one consume loop is alive at any time; and while the consumer is stopped no
\* consume loop takes another envelope.
C39_SMSConsumerLifecycle ==
  /\ [][ (Calls("Start") /\ life.running) => NoOp ]_vars
  /\ [][ (Calls("Stop") /\ ~life.running) => NoOp ]_vars
  /\ [](Cardinality({ l \in Loops : Alive(l) }) <= 1)
  /\ [][ ~life.running
           => \A l \in Loops : ~(life.loops[l].pc = "receive" /\ life'.loops[l].pc = "process") ]_vars

\* the subject the fallback order yields: the request's, else the rendered
\* template subject, else the template name, else the literal default
SubjectByFallback(messageSubject, params, templateSubject, templateName) ==
  LET rendered == ProcessTemplate_text(templateSubject, params)
  IN  IF messageSubject # <<>> THEN messageSubject
      ELSE IF rendered.err = "" /\ rendered.out # <<>> THEN rendered.out
      ELSE IF templateName # <<>> THEN templateName
      ELSE DefaultSubject

\* C34: the subject SendEmail passes to the vendor is the first non-empty one
\* of the request subject, the rendered template subject, the template name
\* and the literal default.
C34_SubjectFallback ==
  (call.fn = "SendEmail" /\ call.out # <<>>)
    => call.out[1] = SubjectByFallback(call.arg[1], call.arg[2], call.arg[3], call.arg[4])

\* C35: whenever no worker is processing an envelope of a Message, a Message
\* that has a SENT event does not have Status REJECTED, redeliveries included.
C35_SentEventNotRejected ==
  \A u \in UUIDs :
    (Handling(u) = {} /\ EventsOf(u, StatusSent) >= 1)
      => \A i \in RowsWithUUID(u) : messages[i].status # StatusRejected

\* C36: with no store or broker failure, every processing of a well-formed
\* envelope ends with the envelope acknowledged and the Message at SENT or
\* REJECTED, so that under fair delivery every published envelope is
\* eventually acknowledged and none is redelivered for ever; and an
\* acknowledged envelope is not delivered again.
C36_EveryEnvelopeSettles ==
  /\ [][ \A w \in Workers :
           (/\ wk[w].pc # "idle"
            /\ ~EnvOf(w).bad
            /\ wk'[w].pc = "idle"
            /\ faults' = 0)
             => /\ topic'[wk[w].env].st = "acked"
                /\ \A i \in RowsWithUUID(EnvOf(w).uuid) :
                     messages'[i].status \in {StatusSent, StatusRejected} ]_vars
  /\ [][ \A e \in EnvIds : topic[e].st = "acked" => topic'[e] = topic[e] ]_vars

\* the UUIDs ProcessMessageBatch has generated, and those whose Produce succeeded
BatchUUIDs == { u \in UUIDs : prod[u] # "none" }

BatchProduced == { u \in UUIDs : prod[u] = "ok" }

\* C37: when ProcessMessageBatch has failed at its k-th message it returns no
\* response pairs; each of the k-1 messages before it has its row and its
\* envelope, then and ever after; the k-th has no envelope; and nothing was
\* generated, inserted or published for a message after the k-th.
C37_BatchFailsAtKth ==
  api.pc = "failed" =>
    /\ api.responses = <<>>
    /\ Cardinality(BatchProduced) = api.idx - 1
    /\ \A u \in BatchProduced :
         /\ Cardinality(RowsWithUUID(u)) = 1
         /\ \E e \in OnTopic(u) : topic[e].origin = "producer" /\ topic[e].ch = api.ch
    /\ Cardinality(BatchUUIDs) <= api.idx
    /\ \A u \in BatchUUIDs \ BatchProduced :
         /\ \A e \in OnTopic(u) : topic[e].origin # "producer"
         /\ prod[u] = "createErr" => RowsWithUUID(u) = {}

\* a batch has failed at its second message, whose publish failed, after the
\* envelope of the first was handled by a consumer
C37_Witness ==
  /\ api.pc = "failed"
  /\ api.idx = 2
  /\ Len(api.msgs) = MaxBatch
  /\ \E u \in BatchProduced : \E e \in OnTopic(u) : topic[e].st = "acked"
  /\ \E u \in BatchUUIDs : prod[u] = "publishErr"

(***************************************************************************)
(* Two WhatsApp envelopes with different UUIDs on the topic of the         *)
(* consumer group: CreateConsumerGroup starts the workers, the shared      *)
(* subscription hands each envelope to one of them, and both run           *)
(* handleMessage at the same time.                                         *)
(***************************************************************************)
MaxPair == 2

\* a payload with a UUID of its own arrives on the WhatsApp topic
PublishDistinct(r) ==
  /\ FreeEnv # {}
  /\ nextUUID < MaxPair
  /\ nextUUID' = nextUUID + 1
  /\ req' = [req EXCEPT ![nextUUID + 1] = r]
  /\ topic' = [topic EXCEPT ![NextEnv] = Envelope(nextUUID + 1, ChannelWhatsApp, "external", FALSE)]
  /\ UNCHANGED <<api, call, mig, life, prod, messages, events, wk, attempts, delivered, faults>>

NextPair ==
  \/ \E r \in RequestsOf(ChannelWhatsApp) : PublishDistinct(r)
  \/ \E w \in WhatsAppWorkers : Receive(w) \/ WhatsAppConsumer(w)

SpecPair == Init /\ [][NextPair]_vars

\* the Message rows and the MessageEvents of a UUID
RowsOf(u) == { messages[i] : i \in RowsWithUUID(u) }

EventBagOf(u) ==
  LET mine == { ev \in BagToSet(events) : ev.msg = u }
  IN  [ev \in mine |-> CopiesIn(ev, events)]

Copies(ev, k) == IF k = 0 THEN EmptyBag ELSE [x \in {ev} |-> k]

\* handleMessage run alone k times on the envelope of u, no store or broker
\* failure, the vendor answering as in delivered[u]: the events it leaves
AloneEvents(u, k) ==
  LET r == req[u]
      sent == Cardinality(Succeeded(u) \cap 1..r.n)
      created == Copies(MessageEvent(u, StatusAccepted, ReasonCreated), 1)
  IN  IF WA_resolve(r) # ""
        THEN created (+) Copies(MessageEvent(u, StatusRejected, WA_resolve(r)), k)
      ELSE IF ~RenderTemplate(r.template)
        THEN created (+) Copies(MessageEvent(u, StatusRejected, ReasonRender), r.n)
      ELSE created (+) Copies(MessageEvent(u, StatusSent, ReasonSent), sent)
                   (+) Copies(MessageEvent(u, StatusRejected, ReasonSend), r.n - sent)

\* ... and the Status it leaves
AloneStatus(u) ==
  IF WA_resolve(req[u]) # "" THEN StatusRejected
  ELSE WA_finalStatus(RenderTemplate(req[u].template) /\ Succeeded(u) \cap 1..req[u].n # {})

SameBag(a, b) ==
  \A ev \in BagToSet(a) \cup BagToSet(b) : CopiesIn(ev, a) = CopiesIn(ev, b)

\* both envelopes are on the topic, nothing failed, and no worker holds the
\* envelope e, which has been handled
HandledOf(e) ==
  /\ nextUUID = MaxPair
  /\ faults = 0
  /\ topic[e].st # "none"
  /\ topic[e].deliv >= 1
  /\ Handling(topic[e].uuid) = {}

\* C38: with two envelopes of different UUIDs handled by different workers at
\* the same time, a step of the worker handling u leaves the Message row, the
\* MessageEvents and the vendor calls of every other UUID as they were, and
\* once an envelope has been handled the Status and the events of its Message
\* are those of handling that envelope alone.
C38_DifferentUUIDsIndependent ==
  /\ [][\A w \in WhatsAppWorkers :
          (wk[w].pc # "idle" /\ wk'[w] # wk[w]) =>
            \A v \in UUIDs \ {EnvOf(w).uuid} :
              /\ RowsOf(v)' = RowsOf(v)
              /\ RowsWithUUID(v)' = RowsWithUUID(v)
              /\ EventBagOf(v)' = EventBagOf(v)
              /\ attempts'[v] = attempts[v]
              /\ delivered'[v] = delivered[v]]_vars
  /\ [](\A e \in EnvIds :
          HandledOf(e) =>
            /\ RowsOf(topic[e].uuid)
                 = {[uuid |-> topic[e].uuid, channel |-> ChannelWhatsApp,
                     status |-> AloneStatus(topic[e].uuid)]}
            /\ SameBag(EventBagOf(topic[e].uuid), AloneEvents(topic[e].uuid, topic[e].deliv)))

\* both workers are in the middle of envelopes of different UUIDs, each having
\* already written events, and a recipient of each has been sent to
C38_Witness ==
  /\ wk["wa1"].pc = "final"
  /\ wk["wa2"].pc = "final"
  /\ EnvOf("wa1").uuid # EnvOf("wa2").uuid
  /\ \A u \in 1..MaxPair : EventsOf(u, StatusSent) >= 1 /\ EventsOf(u, StatusRejected) >= 1

\* C40: the ApplyMigrations call that a failing migration function, or a
\* failing insert of its app_update row, ends returns the error at that
\* version: the version is not recorded and none of its changes are in the
\* database, the versions applied earlier in the call stay recorded, and no
\* version after it is run or recorded in that call.
C40_FailedMigrationRolledBack ==
  /\ [][(mig.pc = "apply" /\ mig.queue # <<>> /\ mig'.failed # <<>>) =>
          /\ mig'.failed[1] = Head(mig.queue)
          /\ mig'.pc = "down"
          /\ mig'.applied = mig.applied
          /\ mig'.ran = mig.ran
          /\ mig'.run = mig.run]_vars
  /\ [](mig.failed # <<>> =>
          /\ mig.pc = "down"
          /\ mig.failed[1] \notin mig.applied
          /\ \A i \in DOMAIN mig.ran : mig.ran[i] # mig.failed[1]
          /\ \A i \in DOMAIN mig.run :
               /\ mig.run[i] \in mig.applied
               /\ \E j \in DOMAIN mig.ran : mig.ran[j] = mig.run[i]
          /\ Head(mig.queue) = mig.failed[1]
          /\ \A i \in DOMAIN mig.queue, j \in DOMAIN mig.run : mig.queue[i] # mig.run[j]
          /\ \A i \in 2..Len(mig.queue) :
               mig.queue[i] \notin mig.appliedMap =>
                 /\ mig.queue[i] \notin mig.applied
                 /\ \A j \in DOMAIN mig.ran : mig.ran[j] # mig.queue[i])

\* the insert of the app_update row failed for the second pending version of a
\* start-up, a third one still waiting
C40_Witness ==
  /\ mig.failed # <<>>
  /\ mig.failed[2] = RecordFailed
  /\ Len(mig.run) = 1
  /\ \E i \in 2..Len(mig.queue) : mig.queue[i] \notin mig.appliedMap

=============================================================================
